---- MODULE Spec2Model ----
(***************************************************************************)
(* A model of glaze: the OKHSL contrast solver (contrast-solver.ts), the   *)
(* colour resolution engine and the theme object (glaze.ts).               *)
(*                                                                         *)
(* Module state.  The solver keeps its luminance table in two module       *)
(* variables, luminanceCache and cacheOrder; every operator that looks a   *)
(* luminance up takes the table as its first argument and returns the      *)
(* table it leaves next to its result.                                     *)
(*                                                                         *)
(* Numbers.  The program computes in floating point; the model computes    *)
(* exactly on fixed-point grids fine enough that every value the program   *)
(* forms from the declared inputs is a grid point:                         *)
(*   - a lightness on the 0..1 scale is an integer number of 1/LOne, with  *)
(*     LOne = 10000 * 2^14, so that both the 4-decimal rounding of the     *)
(*     luminance lookup and 14 halvings of a 4-decimal interval are exact; *)
(*     a lightness on the 0..100 scale uses the same unit (100 = LOne);    *)
(*   - a saturation on the 0..1 scale is an integer number of 1/SOne;      *)
(*   - a luminance is an integer number of 1/YOne;                         *)
(*   - a contrast ratio is the exact fraction <<numerator, denominator>>;  *)
(*   - a declared percentage, a hue and a seed saturation are integers, a  *)
(*     declared saturation factor and a contrast floor are integers of     *)
(*     hundredths and of tenths.                                           *)
(* A midpoint of two lightnesses that is no grid point is taken one unit   *)
(* (6e-9) below.                                                           *)
(* An optional field is a sequence of length 0 (undefined) or 1; an        *)
(* HCPair<T> is a sequence of length 1 (a single value) or 2 (a pair).     *)
(***************************************************************************)
EXTENDS Integers, Sequences, FiniteSets, TLC

\* ------------------------------------------------------------------------
\* Fixed-point scales
\* ------------------------------------------------------------------------

\* Math.round(l * 10000) / 10000 in cachedLuminance
RoundUnit == 10000

\* maxIterations = 14, the solver's default
DefaultMaxIterations == 14

\* 1 / epsilon for epsilon = 1e-4, the solver's default
DefaultEpsilonInv == 10000

RECURSIVE Pow2(_)
Pow2(n) == IF n = 0 THEN 1 ELSE 2 * Pow2(n - 1)

\* lightness 1.0 (and 100 on the 0..100 scale)
LOne == RoundUnit * Pow2(DefaultMaxIterations)

\* one percent of lightness: 1 on the 0..100 scale
LPct == LOne \div 100

\* saturation 1.0
SOne == 1000 * 1000

\* luminance 1.0; the 0.05 of the WCAG formula is YOne \div 20
YOne == 20 * 1000

Min2(a, b) == IF a <= b THEN a ELSE b

Max2(a, b) == IF a >= b THEN a ELSE b

Abs(a) == IF a < 0 THEN 0 - a ELSE a

\* Math.max(min, Math.min(max, v))
clamp(v, min, max) == Max2(min, Min2(max, v))

\* JavaScript's %: the remainder has the sign of the dividend
JsRem(a, b) == IF a >= 0 THEN a % b ELSE 0 - ((0 - a) % b)

\* ------------------------------------------------------------------------
\* Colour space math (okhsl-color-math.ts), the external collaborator
\* ------------------------------------------------------------------------

\* The hue's share in the luminance of a saturated colour, 0..3.
HueWeight(h) == (((h % 360) + 360) % 360) \div 90

\* Luminance of OKHSL (h, s, l): 0 at l <= 0, YOne at l >= 1, non-decreasing
\* in l, lower for a saturated colour of a heavy hue at the same lightness.
OkhslLuminance(h, s, l) ==
    LET lp == clamp(l, 0, LOne) \div 4096
        b  == ((clamp(s, 0, SOne) \div 10000) * HueWeight(h)) \div 2
    IN  (((lp * lp) \div 10000) * ((250 - b) * 40 + b * (lp \div 1000))) \div 80000

\* okhslToLinearSrgb(h, s, l): linear sRGB, here the grey of equal luminance
okhslToLinearSrgb(h, s, l) ==
    LET y == OkhslLuminance(h, s, l) IN <<y, y, y>>

\* relativeLuminanceFromLinearRgb: 0.2126 R + 0.7152 G + 0.0722 B
relativeLuminanceFromLinearRgb(rgb) ==
    (2126 * rgb[1] + 7152 * rgb[2] + 722 * rgb[3]) \div 10000

\* contrastRatioFromLuminance: (max + 0.05) / (min + 0.05), as a fraction
contrastRatioFromLuminance(yA, yB) ==
    <<Max2(yA, yB) + YOne \div 20, Min2(yA, yB) + YOne \div 20>>

\* a >= b, a > b, a = b on fractions with positive denominators
CrGE(a, b) == a[1] * b[2] >= b[1] * a[2]

CrGT(a, b) == a[1] * b[2] > b[1] * a[2]

\* ------------------------------------------------------------------------
\* Objects and Maps
\* ------------------------------------------------------------------------
\* An object used as a dictionary (a ColorMap) and a Map are sequences of
\* entries [key, value] with distinct keys, in the order of insertion.  A Map
\* iterates in that order; the own properties of an object are enumerated
\* with the array indices first (OwnProperties).

\* Object.keys(obj) / [...map.keys()]
Keys(map) == [i \in 1..Len(map) |-> map[i].key]

\* map.has(key) / set.has(key), and key being an own property of obj
Has(map, key) == \E i \in 1..Len(map) : map[i].key = key

\* obj[key] / map.get(key), for a key that is present
Get(map, key) == map[CHOOSE i \in 1..Len(map) : map[i].key = key].value

\* obj[key] = value / map.set(key, value): a present key keeps its place
Set(map, key, value) ==
    IF Has(map, key)
    THEN [i \in 1..Len(map) |->
            IF map[i].key = key THEN [key |-> key, value |-> value] ELSE map[i]]
    ELSE Append(map, [key |-> key, value |-> value])

\* delete obj[key] / map.delete(key): nothing happens for an absent key
Delete(map, key) == SelectSeq(map, LAMBDA e : e.key # key)

\* The property names of the model that are array indices ('1', '2'), in
\* ascending numeric order
ArrayIndexNames == <<"1", "2">>

\* The own properties of an object in the order Object.keys, a spread and
\* for...in enumerate them: the array indices in ascending numeric order,
\* then the other names in the order of insertion
OwnProperties(obj) ==
    [i \in 1..Len(SelectSeq(ArrayIndexNames, LAMBDA k : Has(obj, k))) |->
        [key |-> SelectSeq(ArrayIndexNames, LAMBDA k : Has(obj, k))[i],
         value |-> Get(obj, SelectSeq(ArrayIndexNames, LAMBDA k : Has(obj, k))[i])]]
    \o SelectSeq(obj, LAMBDA e : \A j \in 1..Len(ArrayIndexNames) :
                                    e.key # ArrayIndexNames[j])

\* The properties an object created by {} inherits from Object.prototype
ObjectPrototypeKeys ==
    { "constructor", "hasOwnProperty", "isPrototypeOf", "propertyIsEnumerable",
      "toLocaleString", "toString", "valueOf", "__proto__", "__defineGetter__",
      "__defineSetter__", "__lookupGetter__", "__lookupSetter__" }

\* key in obj, obj being created by {}: an own or an inherited property
In(obj, key) == Has(obj, key) \/ key \in ObjectPrototypeKeys

\* ------------------------------------------------------------------------
\* Contrast solver (contrast-solver.ts)
\* ------------------------------------------------------------------------

ContrastPresetNames == {"AA", "AAA", "AA-large", "AAA-large"}

\* CONTRAST_PRESETS, in tenths
CONTRAST_PRESETS ==
    [p \in ContrastPresetNames |->
        CASE p = "AA" -> 45
          [] p = "AAA" -> 70
          [] p = "AA-large" -> 30
          [] p = "AAA-large" -> 45]

\* A MinContrast is [t |-> "num", v |-> tenths] or [t |-> "preset", name |-> p].
\* resolveMinContrast, as a fraction
resolveMinContrast(value) ==
    IF value.t = "num"
    THEN <<Max2(10, value.v), 10>>
    ELSE <<CONTRAST_PRESETS[value.name], 10>>

\* const lRounded = Math.round(l * 10000) / 10000
LRounded(l) ==
    LET cell == LOne \div RoundUnit
    IN  ((l + cell \div 2) \div cell) * cell

\* const CACHE_SIZE = 512
CACHE_SIZE == 512

\* The table of cachedLuminance: luminanceCache, a Map from key to luminance,
\* and cacheOrder, the array of the keys in the order they were stored
Cache(table, order) == [luminanceCache |-> table, cacheOrder |-> order]

EmptyCache == Cache(<<>>, <<>>)

\* A key that leaves the saturation out
CacheKeyWithoutSaturation(h, s, lRounded) ==
    ToString(h) \o "|" \o ToString(lRounded)

\* const key = `${h}|${s}|${lRounded}`
CacheKey(h, s, lRounded) ==
    ToString(h) \o "|" \o ToString(s) \o "|" \o ToString(lRounded)

\* Lines 91-94: at CACHE_SIZE entries the oldest key leaves cacheOrder and
\* its entry leaves luminanceCache
Evicted(cache) ==
    IF Len(cache.luminanceCache) >= CACHE_SIZE /\ Len(cache.cacheOrder) > 0
    THEN Cache(Delete(cache.luminanceCache, cache.cacheOrder[1]), Tail(cache.cacheOrder))
    ELSE cache

\* luminanceCache.set(key, y); cacheOrder.push(key)
Remembered(cache, key, y) ==
    Cache(Set(cache.luminanceCache, key, y), Append(cache.cacheOrder, key))

\* Lines 88-98 of cachedLuminance: a miss, y being computed
Missed(cache, key, y) == [y |-> y, cache |-> Remembered(Evicted(cache), key, y)]

\* cachedLuminance of a table that evicts the least recently used key: a
\* hit moves its key to the end of cacheOrder
cachedLuminanceLru(cache, h, s, l) ==
    IF Has(cache.luminanceCache, CacheKey(h, s, LRounded(l)))
    THEN [y |-> Get(cache.luminanceCache, CacheKey(h, s, LRounded(l))),
          cache |-> Cache(cache.luminanceCache,
                          Append(SelectSeq(cache.cacheOrder,
                                           LAMBDA k : k # CacheKey(h, s, LRounded(l))),
                                 CacheKey(h, s, LRounded(l))))]
    ELSE Missed(cache, CacheKey(h, s, LRounded(l)),
                relativeLuminanceFromLinearRgb(okhslToLinearSrgb(h, s, LRounded(l))))

\* cachedLuminance: the luminance y returned, read from the table on a hit
\* and computed and stored on a miss, and the table after the call
cachedLuminance(cache, h, s, l) ==
    IF Has(cache.luminanceCache, CacheKey(h, s, LRounded(l)))
    THEN [y |-> Get(cache.luminanceCache, CacheKey(h, s, LRounded(l))), cache |-> cache]
    ELSE Missed(cache, CacheKey(h, s, LRounded(l)),
                relativeLuminanceFromLinearRgb(okhslToLinearSrgb(h, s, LRounded(l))))

\* The ratio of a luminance lum = [y, cache] just looked up against yBase
CrOf(lum, yBase) ==
    [cr |-> contrastRatioFromLuminance(lum.y, yBase), cache |-> lum.cache]

\* The contrast ratio cr searchBranch and coarseScan measure at lightness l,
\* and the table after the lookup
CrAt(cache, h, s, l, yBase) == CrOf(cachedLuminance(cache, h, s, l), yBase)

\* BisectMove deaf to the side of preferred: the low bound moves to a
\* midpoint that passes, the high bound to one that fails
BisectMoveOneSided(low, high, mid, preferred, passes) ==
    IF passes THEN <<mid, high>> ELSE <<low, mid>>

\* The bounds <<low, high>> after an iteration of searchBranch's loop whose
\* midpoint mid passes (crMid >= target) or fails
BisectMove(low, high, mid, preferred, passes) ==
    IF passes
    THEN IF mid < preferred THEN <<mid, high>> ELSE <<low, mid>>
    ELSE IF mid < preferred THEN <<low, mid>> ELSE <<mid, high>>

RECURSIVE BisectToEpsilon(_, _, _, _, _, _, _, _, _, _, _)
\* The loop of searchBranch without its bound on i: it ends only when the
\* bounds are nearer than epsilon
BisectToEpsilon(cache, h, s, low, high, yBase, target, epsilon, maxIter, preferred, i) ==
    IF high - low < epsilon
    THEN [low |-> low, high |-> high, mids |-> i, cache |-> cache]
    ELSE LET m == CrAt(cache, h, s, (low + high) \div 2, yBase)
             b == BisectMove(low, high, (low + high) \div 2, preferred, CrGE(m.cr, target))
         IN  BisectToEpsilon(m.cache, h, s, b[1], b[2], yBase, target, epsilon, maxIter,
                             preferred, i + 1)

RECURSIVE Bisect(_, _, _, _, _, _, _, _, _, _, _)
\* An iteration of searchBranch's loop, the midpoint's ratio m being measured
BisectOn(m, h, s, low, high, yBase, target, epsilon, maxIter, preferred, i) ==
    Bisect(m.cache, h, s,
           BisectMove(low, high, (low + high) \div 2, preferred, CrGE(m.cr, target))[1],
           BisectMove(low, high, (low + high) \div 2, preferred, CrGE(m.cr, target))[2],
           yBase, target, epsilon, maxIter, preferred, i + 1)

\* The for loop of searchBranch from iteration i on; mids counts the
\* midpoints evaluated.
Bisect(cache, h, s, low, high, yBase, target, epsilon, maxIter, preferred, i) ==
    IF i >= maxIter \/ high - low < epsilon
    THEN [low |-> low, high |-> high, mids |-> i, cache |-> cache]
    ELSE BisectOn(CrAt(cache, h, s, (low + high) \div 2, yBase),
                  h, s, low, high, yBase, target, epsilon, maxIter, preferred, i)

STEPS == 64

\* The body of the first loop of coarseScan for the sample l of ratio cr
ScanSample(best, l, cr, target) ==
    IF CrGE(cr, target)
    THEN [bestL |-> l, bestCr |-> cr, bestMet |-> TRUE]
    ELSE IF ~best.bestMet /\ CrGT(cr, best.bestCr)
         THEN [bestL |-> l, bestCr |-> cr, bestMet |-> FALSE]
         ELSE best

RECURSIVE ScanFrom(_, _, _, _, _, _, _, _, _)
\* A sample of the first loop of coarseScan, its ratio m being measured
ScanOn(m, h, s, lo, step, yBase, target, best, i) ==
    ScanFrom(m.cache, h, s, lo, step, yBase, target,
             ScanSample(best, lo + step * i, m.cr, target), i + 1)

\* The first loop of coarseScan from sample i on.
ScanFrom(cache, h, s, lo, step, yBase, target, best, i) ==
    IF i > STEPS
    THEN [best |-> best, cache |-> cache]
    ELSE ScanOn(CrAt(cache, h, s, lo + step * i, yBase),
                h, s, lo, step, yBase, target, best, i)

\* The body of the refinement loop of coarseScan for the midpoint mid of
\* ratio cr: <<rLo, rHi, best>>
RefineMove(rLo, rHi, best, mid, cr, target) ==
    IF CrGE(cr, target)
    THEN <<rLo, mid, [bestL |-> mid, bestCr |-> cr, bestMet |-> TRUE]>>
    ELSE <<mid, rHi, best>>

RECURSIVE Refine(_, _, _, _, _, _, _, _, _, _, _)
\* An iteration of the refinement loop, the midpoint's ratio m being measured
RefineOn(m, h, s, rLo, rHi, yBase, target, epsilon, maxIter, best, i) ==
    Refine(m.cache, h, s,
           RefineMove(rLo, rHi, best, (rLo + rHi) \div 2, m.cr, target)[1],
           RefineMove(rLo, rHi, best, (rLo + rHi) \div 2, m.cr, target)[2],
           yBase, target, epsilon, maxIter,
           RefineMove(rLo, rHi, best, (rLo + rHi) \div 2, m.cr, target)[3], i + 1)

\* The refinement loop of coarseScan from iteration i on.
Refine(cache, h, s, rLo, rHi, yBase, target, epsilon, maxIter, best, i) ==
    IF i >= maxIter \/ rHi - rLo < epsilon
    THEN [best |-> best, mids |-> i, cache |-> cache]
    ELSE RefineOn(CrAt(cache, h, s, (rLo + rHi) \div 2, yBase),
                  h, s, rLo, rHi, yBase, target, epsilon, maxIter, best, i)

\* coarseScan after its first loop, which ended as scan = [best, cache]
CoarseRefine(h, s, lo, step, yBase, target, epsilon, maxIter, scan) ==
    IF scan.best.bestMet /\ scan.best.bestL > lo + step
    THEN Refine(scan.cache, h, s, scan.best.bestL - step, scan.best.bestL, yBase, target,
                epsilon, maxIter, scan.best, 0)
    ELSE [best |-> scan.best, mids |-> 0, cache |-> scan.cache]

\* The BranchResult of coarseScan; mids and scans count the work done
CoarseResult(ref) ==
    [lightness |-> ref.best.bestL, contrast |-> ref.best.bestCr,
     met |-> ref.best.bestMet, mids |-> ref.mids, scans |-> 1, cache |-> ref.cache]

coarseScan(cache, h, s, lo, hi, yBase, target, epsilon, maxIter) ==
    CoarseResult(
        CoarseRefine(h, s, lo, (hi - lo) \div STEPS, yBase, target, epsilon, maxIter,
            ScanFrom(cache, h, s, lo, (hi - lo) \div STEPS, yBase, target,
                     [bestL |-> lo, bestCr |-> <<0, 1>>, bestMet |-> FALSE], 0)))

\* A BranchResult, with the work done for it and the table after it
BranchResult(lightness, contrast, met, mids, scans, cache) ==
    [lightness |-> lightness, contrast |-> contrast, met |-> met,
     mids |-> mids, scans |-> scans, cache |-> cache]

AddMids(r, mids) == [r EXCEPT !.mids = @ + mids]

\* SearchFinal returning the high bound whenever a bound passes
SearchFinalHigh(h, s, lo, hi, yBase, target, epsilon, maxIter, preferred, b, crLow, cHigh) ==
    IF CrGE(crLow, target) \/ CrGE(cHigh.cr, target)
    THEN BranchResult(b.high, cHigh.cr, TRUE, b.mids, 0, cHigh.cache)
    ELSE AddMids(coarseScan(cHigh.cache, h, s, lo, hi, yBase, target, epsilon, maxIter),
                 b.mids)

\* searchBranch after its loop ended with bounds b, of ratios crLow and
\* cHigh.cr, cHigh = [cr, cache] being the last lookup
SearchFinal(h, s, lo, hi, yBase, target, epsilon, maxIter, preferred, b, crLow, cHigh) ==
    IF CrGE(crLow, target) /\ CrGE(cHigh.cr, target)
    THEN IF Abs(b.low - preferred) <= Abs(b.high - preferred)
         THEN BranchResult(b.low, crLow, TRUE, b.mids, 0, cHigh.cache)
         ELSE BranchResult(b.high, cHigh.cr, TRUE, b.mids, 0, cHigh.cache)
    ELSE IF CrGE(crLow, target) THEN BranchResult(b.low, crLow, TRUE, b.mids, 0, cHigh.cache)
    ELSE IF CrGE(cHigh.cr, target)
    THEN BranchResult(b.high, cHigh.cr, TRUE, b.mids, 0, cHigh.cache)
    ELSE AddMids(coarseScan(cHigh.cache, h, s, lo, hi, yBase, target, epsilon, maxIter),
                 b.mids)

\* searchBranch after its loop, the ratio cLow of the low bound being measured
SearchHigh(h, s, lo, hi, yBase, target, epsilon, maxIter, preferred, b, cLow) ==
    SearchFinal(h, s, lo, hi, yBase, target, epsilon, maxIter, preferred, b,
                cLow.cr, CrAt(cLow.cache, h, s, b.high, yBase))

\* searchBranch from the end of its loop on
SearchLoop(h, s, lo, hi, yBase, target, epsilon, maxIter, preferred, b) ==
    SearchHigh(h, s, lo, hi, yBase, target, epsilon, maxIter, preferred, b,
               CrAt(b.cache, h, s, b.low, yBase))

\* searchBranch once the ratios crLo and cHi.cr of its endpoints are known
SearchEnds(h, s, lo, hi, yBase, target, epsilon, maxIter, preferred, crLo, cHi) ==
    IF ~CrGE(crLo, target) /\ ~CrGE(cHi.cr, target)
    THEN IF CrGE(crLo, cHi.cr)
         THEN BranchResult(lo, crLo, FALSE, 0, 0, cHi.cache)
         ELSE BranchResult(hi, cHi.cr, FALSE, 0, 0, cHi.cache)
    ELSE SearchLoop(h, s, lo, hi, yBase, target, epsilon, maxIter, preferred,
                    Bisect(cHi.cache, h, s, lo, hi, yBase, target, epsilon, maxIter,
                           preferred, 0))

\* searchBranch, the ratio cLo of its lower endpoint being measured
SearchHi(h, s, lo, hi, yBase, target, epsilon, maxIter, preferred, cLo) ==
    SearchEnds(h, s, lo, hi, yBase, target, epsilon, maxIter, preferred,
               cLo.cr, CrAt(cLo.cache, h, s, hi, yBase))

searchBranch(cache, h, s, lo, hi, yBase, target, epsilon, maxIter, preferred) ==
    SearchHi(h, s, lo, hi, yBase, target, epsilon, maxIter, preferred,
             CrAt(cache, h, s, lo, yBase))

\* The BranchResult standing for a branch that was not searched (null)
NoBranch(cache) == BranchResult(0, <<0, 1>>, FALSE, 0, 0, cache)

\* A FindLightnessForContrastResult.  Beside lightness, contrast, met and
\* branch it carries the work done: searched, the branches searched, and
\* mids and scans, the bisection midpoints evaluated and the coarse scans.
Result(r, branch, searched, mids, scans) ==
    [lightness |-> r.lightness, contrast |-> r.contrast, met |-> r.met,
     branch |-> branch, searched |-> searched, mids |-> mids, scans |-> scans]

\* What a call of findLightnessForContrast leaves: the result returned and
\* the table
Returned(result, cache) == [result |-> result, cache |-> cache]

\* Combine with the last choice left out: when no branch met the target the
\* darker candidate is returned whatever the contrasts
CombineDarkerUnmet(pref, crPref, hasDarker, hasLighter, darkerResult, lighterResult, searched, mids, scans) ==
    IF (hasDarker /\ darkerResult.met) /\ (hasLighter /\ lighterResult.met)
    THEN IF Abs(darkerResult.lightness - pref) <= Abs(lighterResult.lightness - pref)
         THEN Result(darkerResult, "darker", searched, mids, scans)
         ELSE Result(lighterResult, "lighter", searched, mids, scans)
    ELSE IF hasDarker /\ darkerResult.met
    THEN Result(darkerResult, "darker", searched, mids, scans)
    ELSE IF hasLighter /\ lighterResult.met
    THEN Result(lighterResult, "lighter", searched, mids, scans)
    ELSE IF ~hasDarker /\ ~hasLighter
    THEN Result([lightness |-> pref, contrast |-> crPref, met |-> FALSE],
                "preferred", {}, 0, 0)
    ELSE IF hasDarker THEN Result(darkerResult, "darker", searched, mids, scans)
    ELSE Result(lighterResult, "lighter", searched, mids, scans)

\* Lines 305-339 of findLightnessForContrast: the choice between the results
\* of the branches (hasDarker, hasLighter: the branch was searched, not null)
Combine(pref, crPref, hasDarker, hasLighter, darkerResult, lighterResult, searched, mids, scans) ==
    IF (hasDarker /\ darkerResult.met) /\ (hasLighter /\ lighterResult.met)
    THEN IF Abs(darkerResult.lightness - pref) <= Abs(lighterResult.lightness - pref)
         THEN Result(darkerResult, "darker", searched, mids, scans)
         ELSE Result(lighterResult, "lighter", searched, mids, scans)
    ELSE IF hasDarker /\ darkerResult.met
    THEN Result(darkerResult, "darker", searched, mids, scans)
    ELSE IF hasLighter /\ lighterResult.met
    THEN Result(lighterResult, "lighter", searched, mids, scans)
    ELSE IF ~hasDarker /\ ~hasLighter
    THEN Result([lightness |-> pref, contrast |-> crPref, met |-> FALSE],
                "preferred", {}, 0, 0)
    ELSE IF ~hasLighter THEN Result(darkerResult, "darker", searched, mids, scans)
    ELSE IF ~hasDarker THEN Result(lighterResult, "lighter", searched, mids, scans)
    \* candidates.sort((a, b) => b.contrast - a.contrast): the sort is
    \* stable, the darker candidate stays first on equal contrast
    ELSE IF CrGE(darkerResult.contrast, lighterResult.contrast)
    THEN Result(darkerResult, "darker", searched, mids, scans)
    ELSE Result(lighterResult, "lighter", searched, mids, scans)

\* Lines 305-339, the two branch searches being done: the lighter branch was
\* searched last, the table is the one it left
Branches(hue, sat, pref, minL, maxL, yBase, target, epsilon, maxIter, crPref, darkerResult, lighterResult) ==
    Returned(
        Combine(pref, crPref, pref > minL, pref < maxL, darkerResult, lighterResult,
                (IF pref > minL THEN {"darker"} ELSE {})
                    \cup (IF pref < maxL THEN {"lighter"} ELSE {}),
                darkerResult.mids + lighterResult.mids,
                darkerResult.scans + lighterResult.scans),
        lighterResult.cache)

\* Lines 290-303: the search of the lighter branch, which follows that of
\* the darker branch
Lighter(hue, sat, pref, minL, maxL, yBase, target, epsilon, maxIter, crPref, darkerResult) ==
    Branches(hue, sat, pref, minL, maxL, yBase, target, epsilon, maxIter, crPref,
        darkerResult,
        IF pref < maxL
        THEN searchBranch(darkerResult.cache, hue, sat, pref, maxL, yBase, target,
                          epsilon, maxIter, pref)
        ELSE NoBranch(darkerResult.cache))

\* Lines 273-303: the two branch searches, the darker branch first
Searches(hue, sat, pref, minL, maxL, yBase, target, epsilon, maxIter, cPref) ==
    Lighter(hue, sat, pref, minL, maxL, yBase, target, epsilon, maxIter, cPref.cr,
        IF pref > minL
        THEN searchBranch(cPref.cache, hue, sat, minL, pref, yBase, target,
                          epsilon, maxIter, pref)
        ELSE NoBranch(cPref.cache))

\* Find without its early return: the branches are searched even when the
\* preferred lightness meets the target
FindAlwaysSearches(hue, sat, pref, minL, maxL, yBase, target, epsilon, maxIter, cPref) ==
    Searches(hue, sat, pref, minL, maxL, yBase, target, epsilon, maxIter, cPref)

\* findLightnessForContrast once target, yBase and the ratio cPref = [cr,
\* cache] of the preferred lightness are computed
Find(hue, sat, pref, minL, maxL, yBase, target, epsilon, maxIter, cPref) ==
    IF CrGE(cPref.cr, target)
    THEN Returned(Result([lightness |-> pref, contrast |-> cPref.cr, met |-> TRUE],
                         "preferred", {}, 0, 0),
                  cPref.cache)
    ELSE Searches(hue, sat, pref, minL, maxL, yBase, target, epsilon, maxIter, cPref)

\* The call with yBase computed
FindFromBase(cache, options, target, yBase) ==
    Find(options.hue, options.saturation, options.preferredLightness,
         options.lightnessRange[1], options.lightnessRange[2], yBase, target,
         options.epsilon, options.maxIterations,
         CrAt(cache, options.hue, options.saturation, options.preferredLightness, yBase))

\* findLightnessForContrast, called when the table is cache.  options: hue,
\* saturation, preferredLightness, baseLinearRgb, contrast, lightnessRange,
\* epsilon, maxIterations (a caller that leaves out one of the last three
\* passes its default).
findLightnessForContrast(cache, options) ==
    FindFromBase(cache, options, resolveMinContrast(options.contrast),
                 relativeLuminanceFromLinearRgb(options.baseLinearRgb))

\* ------------------------------------------------------------------------
\* Colour definitions (types.ts)
\* ------------------------------------------------------------------------
\* A number is [t |-> "num", v |-> n]; a RelativeValue, the string '+n' or
\* '-n', is [t |-> "rel", sign |-> "+" or "-", mag |-> n].  A ColorDef is
\* [lightness, saturation, hue, base, contrast, mode], each field optional.

Num(n) == [t |-> "num", v |-> n]

Rel(sign, mag) == [t |-> "rel", sign |-> sign, mag |-> mag]

Preset(p) == [t |-> "preset", name |-> p]

\* ------------------------------------------------------------------------
\* HCPair helpers
\* ------------------------------------------------------------------------

\* Array.isArray(p) ? p[0] : p
pairNormal(p) == p[1]

\* Array.isArray(p) ? p[1] : p
pairHC(p) == IF Len(p) = 2 THEN p[2] ELSE p[1]

\* ------------------------------------------------------------------------
\* Helpers
\* ------------------------------------------------------------------------

\* parseFloat of a RelativeValue: the signed magnitude
parseFloat(value) == IF value.sign = "-" THEN 0 - value.mag ELSE value.mag

parseRelativeOrAbsolute(value) ==
    IF value.t = "num"
    THEN [value |-> value.v, relative |-> FALSE]
    ELSE [value |-> parseFloat(value), relative |-> TRUE]

\* resolveEffectiveHue without the normalisation of a relative hue
resolveEffectiveHueUnwrapped(seedHue, defHue) ==
    IF Len(defHue) = 0
    THEN seedHue
    ELSE IF defHue[1].t = "rel"
         THEN seedHue + parseFloat(defHue[1])
         ELSE JsRem(JsRem(defHue[1].v, 360) + 360, 360)

resolveEffectiveHue(seedHue, defHue) ==
    IF Len(defHue) = 0
    THEN seedHue
    ELSE LET parsed == parseRelativeOrAbsolute(defHue[1])
         IN  IF parsed.relative
             THEN JsRem(JsRem(seedHue + parsed.value, 360) + 360, 360)
             ELSE JsRem(JsRem(parsed.value, 360) + 360, 360)

isAbsoluteLightness(lightness) ==
    IF Len(lightness) = 0 THEN FALSE ELSE lightness[1].t = "num"

\* def.base !== undefined
BaseDefined(def) == Len(def.base) = 1

\* def.base, as a condition: a string that is not empty
HasBase(def) == BaseDefined(def) /\ def.base[1] # ""

\* def.mode ?? 'auto'
ModeOf(def) == IF Len(def.mode) = 0 THEN "auto" ELSE def.mode[1]

\* ------------------------------------------------------------------------
\* Validation
\* ------------------------------------------------------------------------

\* The error, if any, the first loop of validateColorDefs throws for one entry.
EntryError(defs, def) ==
    IF Len(def.contrast) > 0 /\ ~HasBase(def)
    THEN "contrast-without-base"
    ELSE IF Len(def.lightness) > 0 /\ ~isAbsoluteLightness(def.lightness) /\ ~HasBase(def)
    THEN "relative-without-base"
    ELSE IF HasBase(def) /\ ~Has(defs, def.base[1])
    THEN "non-existent-base"
    ELSE IF ~isAbsoluteLightness(def.lightness) /\ ~BaseDefined(def)
    THEN "missing-position"
    ELSE "none"

\* The first loop from entry i on: the first error in the order of the entries.
RECURSIVE FirstEntryError(_, _)
FirstEntryError(defs, i) ==
    IF i > Len(defs)
    THEN "none"
    ELSE LET e == EntryError(defs, defs[i].value)
         IN  IF e # "none" THEN e ELSE FirstEntryError(defs, i + 1)

\* console.warn: the names with both an absolute lightness and a base
Warnings(defs) ==
    {defs[i].key : i \in {j \in 1..Len(defs) :
        isAbsoluteLightness(defs[j].value.lightness) /\ BaseDefined(defs[j].value)}}

\* dfs(name) of validateColorDefs: cycle is TRUE when it throws
RECURSIVE dfs(_, _, _, _)
dfs(defs, name, inStack, visited) ==
    IF name \in inStack
    THEN [cycle |-> TRUE, visited |-> visited]
    ELSE IF name \in visited
    THEN [cycle |-> FALSE, visited |-> visited]
    ELSE LET def == Get(defs, name)
             sub == IF HasBase(def) /\ ~isAbsoluteLightness(def.lightness)
                    THEN dfs(defs, def.base[1], inStack \cup {name}, visited)
                    ELSE [cycle |-> FALSE, visited |-> visited]
         IN  IF sub.cycle
             THEN sub
             ELSE [cycle |-> FALSE, visited |-> sub.visited \cup {name}]

\* for (const name of names) dfs(name), from entry i on
RECURSIVE DfsAll(_, _, _)
DfsAll(defs, i, visited) ==
    IF i > Len(defs)
    THEN FALSE
    ELSE LET r == dfs(defs, defs[i].key, {}, visited)
         IN  IF r.cycle THEN TRUE ELSE DfsAll(defs, i + 1, r.visited)

\* validateColorDefs: the error thrown, or "none"
validateColorDefs(defs) ==
    LET e == FirstEntryError(OwnProperties(defs), 1)
    IN  IF e # "none" THEN e
        ELSE IF DfsAll(OwnProperties(defs), 1, {}) THEN "circular"
        ELSE "none"

\* ------------------------------------------------------------------------
\* Topological sort
\* ------------------------------------------------------------------------

\* visit(name) of topoSort: st is [result, visited]
RECURSIVE visit(_, _, _)
visit(defs, name, st) ==
    IF name \in st.visited
    THEN st
    ELSE LET def  == Get(defs, name)
             st1  == [st EXCEPT !.visited = @ \cup {name}]
             st2  == IF HasBase(def) /\ ~isAbsoluteLightness(def.lightness)
                     THEN visit(defs, def.base[1], st1)
                     ELSE st1
         IN  [st2 EXCEPT !.result = Append(@, name)]

RECURSIVE VisitAll(_, _, _)
VisitAll(defs, i, st) ==
    IF i > Len(defs) THEN st
    ELSE VisitAll(defs, i + 1, visit(defs, defs[i].key, st))

topoSort(defs) ==
    VisitAll(OwnProperties(defs), 1, [result |-> <<>>, visited |-> {}]).result

\* ------------------------------------------------------------------------
\* Dark scheme mapping
\* ------------------------------------------------------------------------
\* config is globalConfig: darkLightness = <<lo, hi>> in percent,
\* darkDesaturation in hundredths.

\* mapLightnessDark that maps 'auto' as it maps 'fixed', without inversion
mapLightnessDarkNoInversion(config, l, mode) ==
    IF mode = "static" THEN l
    ELSE (l \div 100) * (config.darkLightness[2] - config.darkLightness[1])
            + config.darkLightness[1] * LPct

mapLightnessDark(config, l, mode) ==
    LET lo == config.darkLightness[1]
        hi == config.darkLightness[2]
    IN  IF mode = "static" THEN l
        ELSE IF mode = "fixed" THEN (l \div 100) * (hi - lo) + lo * LPct
        ELSE ((100 * LPct - l) \div 100) * (hi - lo) + lo * LPct

mapSaturationDark(config, s, mode) ==
    IF mode = "static" THEN s
    ELSE (s \div 100) * (100 - config.darkDesaturation)

\* ------------------------------------------------------------------------
\* Colour resolution engine
\* ------------------------------------------------------------------------
\* A ResolveContext is [hue, saturation, defs, resolved]: resolved is the Map
\* of the ResolvedColor [name, light, dark, lightContrast, darkContrast, mode]
\* of each name set so far, a variant being [h, s, l].

\* def.saturation ?? 1, clamped to 0..1, in hundredths
SatFactor(def) ==
    clamp(IF Len(def.saturation) = 0 THEN 100 ELSE def.saturation[1], 0, 100)

\* (satFactor * ctx.saturation) / 100, on the 0..1 scale
SeedSaturation(satFactor, saturation) == satFactor * saturation * (SOne \div 10000)

\* resolveRootColor that takes the normal value of the pair in every pass
resolveRootColorNormalPick(def, isHighContrast) ==
    [lightL |-> clamp(parseRelativeOrAbsolute(pairNormal(def.lightness)).value * LPct,
                      0, 100 * LPct),
     satFactor |-> SatFactor(def)]

resolveRootColor(def, isHighContrast) ==
    LET rawL     == def.lightness
        rawValue == IF isHighContrast THEN pairHC(rawL) ELSE pairNormal(rawL)
        parsed   == parseRelativeOrAbsolute(rawValue)
    IN  [lightL |-> clamp(parsed.value * LPct, 0, 100 * LPct),
         satFactor |-> SatFactor(def)]

\* The variant of a ResolvedColor for (isDark, isHighContrast)
VariantOf(color, isDark, isHighContrast) ==
    IF isDark /\ isHighContrast THEN color.darkContrast
    ELSE IF isDark THEN color.dark
    ELSE IF isHighContrast THEN color.lightContrast
    ELSE color.light

\* PreferredL without the change of sign of a relative delta in the dark
\* passes of an 'auto' colour
PreferredLKeepsSign(config, def, baseL, isHighContrast, isDark) ==
    IF Len(def.lightness) = 0
    THEN baseL
    ELSE LET rawValue == IF isHighContrast
                         THEN pairHC(def.lightness)
                         ELSE pairNormal(def.lightness)
             parsed == parseRelativeOrAbsolute(rawValue)
         IN  IF parsed.relative
             THEN clamp(baseL + parsed.value * LPct, 0, 100 * LPct)
             ELSE IF isDark
                  THEN mapLightnessDark(config, parsed.value * LPct, ModeOf(def))
                  ELSE clamp(parsed.value * LPct, 0, 100 * LPct)

\* Lines 1138-1166 of resolveDependentColor: the preferred lightness, on
\* the 0..100 scale, of a dependent colour whose base has lightness baseL
PreferredL(config, def, baseL, isHighContrast, isDark) ==
    LET mode == ModeOf(def)
    IN  IF Len(def.lightness) = 0
        THEN baseL
        ELSE LET rawValue == IF isHighContrast
                             THEN pairHC(def.lightness)
                             ELSE pairNormal(def.lightness)
                 parsed == parseRelativeOrAbsolute(rawValue)
             IN  IF parsed.relative
                 THEN LET delta == IF isDark /\ mode = "auto"
                                   THEN 0 - parsed.value
                                   ELSE parsed.value
                      IN  clamp(baseL + delta * LPct, 0, 100 * LPct)
                 ELSE IF isDark
                      THEN mapLightnessDark(config, parsed.value * LPct, mode)
                      ELSE clamp(parsed.value * LPct, 0, 100 * LPct)

\* The options resolveDependentColor hands to findLightnessForContrast
SolverOptions(config, def, ctx, base, preferredL, isHighContrast, isDark, effectiveHue) ==
    LET mode   == ModeOf(def)
        minCr  == IF isHighContrast THEN pairHC(def.contrast) ELSE pairNormal(def.contrast)
        seedS  == SeedSaturation(SatFactor(def), ctx.saturation)
        effectiveSat == IF isDark THEN mapSaturationDark(config, seedS, mode) ELSE seedS
    IN  [hue |-> effectiveHue,
         saturation |-> effectiveSat,
         preferredLightness |-> preferredL,
         baseLinearRgb |-> okhslToLinearSrgb(base.h, base.s, base.l),
         contrast |-> minCr,
         lightnessRange |-> <<0, LOne>>,
         epsilon |-> LOne \div DefaultEpsilonInv,
         maxIterations |-> DefaultMaxIterations]

\* What resolveDependentColor returns: threw is TRUE for the error
\* 'base ... not yet resolved'; solved holds the options and the result of
\* the call of findLightnessForContrast, when one was made; cache is the
\* table of cachedLuminance after the call
Dependent(threw, l, satFactor, solved, cache) ==
    [threw |-> threw, l |-> l, satFactor |-> satFactor, solved |-> solved,
     cache |-> cache]

\* DependentSolved that drops the solver's lightness for the preferred one
DependentSolvedKeepsPreferred(def, options, out) ==
    Dependent(FALSE, options.preferredLightness, SatFactor(def),
              <<[options |-> options, result |-> out.result]>>, out.cache)

\* Lines 1202-1210: the solver call, which left out = [result, cache], and
\* the return that follows it
DependentSolved(def, options, out) ==
    Dependent(FALSE, out.result.lightness, SatFactor(def),
              <<[options |-> options, result |-> out.result]>>, out.cache)

\* Lines 1168-1213, preferredL being computed
DependentFromPreferred(cache, config, def, ctx, base, preferredL, isHighContrast, isDark, effectiveHue, options) ==
    IF Len(def.contrast) > 0
    THEN DependentSolved(def, options, findLightnessForContrast(cache, options))
    ELSE Dependent(FALSE, clamp(preferredL, 0, 100 * LPct), SatFactor(def), <<>>, cache)

\* Lines 1124-1213, base being the base's variant for the pass
DependentFromBase(cache, config, def, ctx, base, preferredL, isHighContrast, isDark, effectiveHue) ==
    DependentFromPreferred(cache, config, def, ctx, base, preferredL, isHighContrast, isDark,
        effectiveHue,
        IF Len(def.contrast) > 0
        THEN SolverOptions(config, def, ctx, base, preferredL, isHighContrast, isDark,
                           effectiveHue)
        ELSE <<>>)

\* BaseVariant that reads the base's light-normal variant in every pass
BaseVariantLight(ctx, baseName, isDark, isHighContrast) ==
    VariantOf(Get(ctx.resolved, baseName), FALSE, FALSE)

\* The base's lightness and h, s, l that resolveDependentColor reads
BaseVariant(ctx, baseName, isDark, isHighContrast) ==
    VariantOf(Get(ctx.resolved, baseName), isDark, isHighContrast)

resolveDependentColor(cache, config, name, def, ctx, isHighContrast, isDark, effectiveHue) ==
    IF ~Has(ctx.resolved, def.base[1])
    THEN Dependent(TRUE, 0, 0, <<>>, cache)
    ELSE DependentFromBase(cache, config, def, ctx,
            BaseVariant(ctx, def.base[1], isDark, isHighContrast),
            PreferredL(config, def,
                       BaseVariant(ctx, def.base[1], isDark, isHighContrast).l,
                       isHighContrast, isDark),
            isHighContrast, isDark, effectiveHue)

\* What resolveColorForScheme returns: the variant, or threw, and the table
\* of cachedLuminance after the call
Resolved(threw, variant, solved, cache) ==
    [threw |-> threw, variant |-> variant, solved |-> solved, cache |-> cache]

\* FinalVariant without the clamps of the returned variant
FinalVariantUnclamped(config, def, ctx, isDark, isRoot, effectiveHue, lightL, satFactor) ==
    [h |-> effectiveHue,
     s |-> IF isDark
           THEN mapSaturationDark(config,
                    SeedSaturation(satFactor, ctx.saturation), ModeOf(def))
           ELSE SeedSaturation(satFactor, ctx.saturation),
     l |-> IF isDark /\ isRoot
           THEN mapLightnessDark(config, lightL, ModeOf(def))
           ELSE lightL]

\* FinalVariant that desaturates in every pass
FinalVariantAlwaysDesaturated(config, def, ctx, isDark, isRoot, effectiveHue, lightL, satFactor) ==
    [h |-> effectiveHue,
     s |-> clamp(mapSaturationDark(config,
                     SeedSaturation(satFactor, ctx.saturation), ModeOf(def)),
                 0, SOne),
     l |-> clamp(IF isDark /\ isRoot
                 THEN mapLightnessDark(config, lightL, ModeOf(def))
                 ELSE lightL,
                 0, LOne)]

\* Lines 1247-1265: the final mapping of lightL and satFactor into the variant
FinalVariant(config, def, ctx, isDark, isRoot, effectiveHue, lightL, satFactor) ==
    [h |-> effectiveHue,
     s |-> clamp(IF isDark
                 THEN mapSaturationDark(config,
                          SeedSaturation(satFactor, ctx.saturation), ModeOf(def))
                 ELSE SeedSaturation(satFactor, ctx.saturation),
                 0, SOne),
     l |-> clamp(IF isDark /\ isRoot
                 THEN mapLightnessDark(config, lightL, ModeOf(def))
                 ELSE lightL,
                 0, LOne)]

RootResolved(cache, config, def, ctx, isDark, effectiveHue, root) ==
    Resolved(FALSE,
             FinalVariant(config, def, ctx, isDark, TRUE, effectiveHue,
                          root.lightL, root.satFactor),
             <<>>, cache)

DependentResolved(config, def, ctx, isDark, effectiveHue, dep) ==
    IF dep.threw
    THEN Resolved(TRUE, [h |-> 0, s |-> 0, l |-> 0], <<>>, dep.cache)
    ELSE Resolved(FALSE,
                  FinalVariant(config, def, ctx, isDark, FALSE, effectiveHue,
                               dep.l, dep.satFactor),
                  dep.solved, dep.cache)

resolveColorForScheme(cache, config, name, def, ctx, isDark, isHighContrast) ==
    IF isAbsoluteLightness(def.lightness) /\ ~HasBase(def)
    THEN RootResolved(cache, config, def, ctx, isDark,
                      resolveEffectiveHue(ctx.hue, def.hue),
                      resolveRootColor(def, isHighContrast))
    ELSE DependentResolved(config, def, ctx, isDark, resolveEffectiveHue(ctx.hue, def.hue),
             resolveDependentColor(cache, config, name, def, ctx, isHighContrast, isDark,
                                   resolveEffectiveHue(ctx.hue, def.hue)))

\* ------------------------------------------------------------------------
\* resolveAllColors, statement by statement
\* ------------------------------------------------------------------------
\* A run of resolveAllColors is the record
\*   pc      where the call stands: "validate", "sort", "pass1", "seed2",
\*           "pass2", "seed3", "pass3", "seed4", "pass4", "build", and at its
\*           end "done" (it returned) or "threw"
\*   order   the result of topoSort
\*   i       the index in order of the next colour of the running loop
\*   resolved, lightMap, lightHCMap, darkMap, darkHCMap   the Maps of the code
\*   result  the Map returned
\*   error   the error thrown, or "none"
\*   warned  the names console.warn was called for
\*   calls   the calls of findLightnessForContrast made so far (history)

PassPcs == {"pass1", "pass2", "pass3", "pass4"}

SeedPcs == {"seed2", "seed3", "seed4"}

IsDarkPass(pc) == pc \in {"pass3", "pass4"}

IsHighContrastPass(pc) == pc \in {"pass2", "pass4"}

\* What follows a loop of the call
PcAfter(pc) ==
    CASE pc = "pass1" -> "seed2"
      [] pc = "seed2" -> "pass2"
      [] pc = "pass2" -> "seed3"
      [] pc = "seed3" -> "pass3"
      [] pc = "pass3" -> "seed4"
      [] pc = "seed4" -> "pass4"
      [] pc = "pass4" -> "build"

StartRun ==
    [pc |-> "validate", order |-> <<>>, i |-> 1, resolved |-> <<>>,
     lightMap |-> <<>>, lightHCMap |-> <<>>, darkMap |-> <<>>, darkHCMap |-> <<>>,
     result |-> <<>>, error |-> "none", warned |-> {}, calls |-> <<>>]

\* validateColorDefs(defs)
ValidateStep(defs, r) ==
    LET e == validateColorDefs(defs)
    IN  IF e # "none"
        THEN [r EXCEPT !.pc = "threw", !.error = e]
        ELSE [r EXCEPT !.pc = "sort", !.warned = Warnings(defs)]

\* const order = topoSort(defs), and the context
SortStep(defs, r) ==
    LET order == topoSort(defs)
    IN  [r EXCEPT !.order = order, !.i = 1,
                  !.pc = IF Len(order) = 0 THEN PcAfter("pass1") ELSE "pass1"]

\* ResolvedEntry that stores the variant in the first pass only: after it,
\* ctx.resolved keeps the entry the seeding loop left
ResolvedEntryStale(pc, resolved, name, def, variant) ==
    IF pc = "pass1"
    THEN [name |-> name, light |-> variant, dark |-> variant,
          lightContrast |-> variant, darkContrast |-> variant,
          mode |-> ModeOf(def)]
    ELSE Get(resolved, name)

\* ctx.resolved.set(name, ...) after the evaluation of a pass
ResolvedEntry(pc, resolved, name, def, variant) ==
    CASE pc = "pass1" ->
            [name |-> name, light |-> variant, dark |-> variant,
             lightContrast |-> variant, darkContrast |-> variant,
             mode |-> ModeOf(def)]
      [] pc = "pass2" -> [Get(resolved, name) EXCEPT !.lightContrast = variant]
      [] pc = "pass3" -> [Get(resolved, name) EXCEPT !.dark = variant]
      [] pc = "pass4" -> [Get(resolved, name) EXCEPT !.darkContrast = variant]

\* The history of solver calls, with the call of this evaluation if any
CallsWith(calls, pc, name, solved) ==
    IF Len(solved) = 0
    THEN calls
    ELSE Append(calls, [name |-> name, isDark |-> IsDarkPass(pc),
                        isHighContrast |-> IsHighContrastPass(pc),
                        options |-> solved[1].options,
                        result |-> solved[1].result])

\* A statement of a run was executed: the run after it, and the table of
\* cachedLuminance after it
Stepped(r, cache) == [run |-> r, cache |-> cache]

\* The Map updates that follow resolveColorForScheme in the loop of a pass
Evaluated(r, name, def, res) ==
    IF res.threw
    THEN [r EXCEPT !.pc = "threw", !.error = "not-yet-resolved"]
    ELSE [r EXCEPT
            !.lightMap   = IF r.pc = "pass1" THEN Set(@, name, res.variant) ELSE @,
            !.lightHCMap = IF r.pc = "pass2" THEN Set(@, name, res.variant) ELSE @,
            !.darkMap    = IF r.pc = "pass3" THEN Set(@, name, res.variant) ELSE @,
            !.darkHCMap  = IF r.pc = "pass4" THEN Set(@, name, res.variant) ELSE @,
            !.resolved   = Set(@, name, ResolvedEntry(r.pc, r.resolved, name, def, res.variant)),
            !.calls      = CallsWith(@, r.pc, name, res.solved),
            !.i          = IF r.i = Len(r.order) THEN 1 ELSE r.i + 1,
            !.pc         = IF r.i = Len(r.order) THEN PcAfter(r.pc) ELSE r.pc]

\* One iteration of the loop of a pass: resolveColorForScheme for order[i]
\* and the Map updates that follow it
EvaluatedWith(r, name, def, res) == Stepped(Evaluated(r, name, def, res), res.cache)

EvaluateStep(cache, config, hue, saturation, defs, r) ==
    EvaluatedWith(r, r.order[r.i], Get(defs, r.order[r.i]),
        resolveColorForScheme(cache, config, r.order[r.i], Get(defs, r.order[r.i]),
            [hue |-> hue, saturation |-> saturation, defs |-> defs,
             resolved |-> r.resolved],
            IsDarkPass(r.pc), IsHighContrastPass(r.pc)))

\* The loop that precedes the evaluation loop of passes 2, 3 and 4: it
\* seeds ctx.resolved with the variants of the passes already made
RECURSIVE SeedFrom(_, _, _, _)
SeedFrom(defs, r, resolved, k) ==
    IF k > Len(r.order)
    THEN resolved
    ELSE LET name == r.order[k]
             old  == Get(resolved, name)
             entry ==
                CASE r.pc = "seed2" ->
                        [old EXCEPT !.lightContrast = Get(r.lightMap, name)]
                  [] r.pc = "seed3" ->
                        [name |-> name,
                         light |-> Get(r.lightMap, name),
                         dark |-> Get(r.lightMap, name),
                         lightContrast |-> Get(r.lightHCMap, name),
                         darkContrast |-> Get(r.lightHCMap, name),
                         mode |-> ModeOf(Get(defs, name))]
                  [] r.pc = "seed4" ->
                        [old EXCEPT !.darkContrast = Get(r.darkMap, name)]
         IN  SeedFrom(defs, r, Set(resolved, name, entry), k + 1)

SeedStep(defs, r) ==
    [r EXCEPT !.resolved = SeedFrom(defs, r, r.resolved, 1),
              !.i = 1,
              !.pc = IF Len(r.order) = 0 THEN PcAfter(PcAfter(r.pc)) ELSE PcAfter(r.pc)]

\* Build final result, from entry k of order on
RECURSIVE BuildFrom(_, _, _, _)
BuildFrom(defs, r, result, k) ==
    IF k > Len(r.order)
    THEN result
    ELSE LET name == r.order[k]
         IN  BuildFrom(defs, r,
                 Set(result, name,
                     [name |-> name,
                      light |-> Get(r.lightMap, name),
                      dark |-> Get(r.darkMap, name),
                      lightContrast |-> Get(r.lightHCMap, name),
                      darkContrast |-> Get(r.darkHCMap, name),
                      mode |-> ModeOf(Get(defs, name))]),
                 k + 1)

BuildStep(defs, r) ==
    [r EXCEPT !.result = BuildFrom(defs, r, <<>>, 1), !.pc = "done"]

\* The next statement of a run that has not ended
RunStep(cache, config, hue, saturation, defs, r) ==
    IF r.pc = "validate" THEN Stepped(ValidateStep(defs, r), cache)
    ELSE IF r.pc = "sort" THEN Stepped(SortStep(defs, r), cache)
    ELSE IF r.pc \in PassPcs THEN EvaluateStep(cache, config, hue, saturation, defs, r)
    ELSE IF r.pc \in SeedPcs THEN Stepped(SeedStep(defs, r), cache)
    ELSE Stepped(BuildStep(defs, r), cache)

RECURSIVE RunToEnd(_, _, _, _, _)
\* The statements of a run from st = [run, cache] to its end
RunToEnd(config, hue, saturation, defs, st) ==
    IF st.run.pc \in {"done", "threw"}
    THEN st
    ELSE RunToEnd(config, hue, saturation, defs,
                  RunStep(st.cache, config, hue, saturation, defs, st.run))

\* resolveAllColors(hue, saturation, defs) under globalConfig = config,
\* called when the table of cachedLuminance is cache: the run at its end and
\* the table it leaves
resolveAllColors(cache, config, hue, saturation, defs) ==
    RunToEnd(config, hue, saturation, defs, Stepped(StartRun, cache))

\* ------------------------------------------------------------------------
\* Inputs
\* ------------------------------------------------------------------------

\* The most colours a theme holds
MaxColors == 3

ColorNames == <<"a", "b", "c", "d">>

Def(lightness, saturation, hue, base, contrast, mode) ==
    [lightness |-> lightness, saturation |-> saturation, hue |-> hue,
     base |-> base, contrast |-> contrast, mode |-> mode]

\* The definitions a colour of each name is drawn from: the README's and the
\* tests' definitions, out-of-range values, every validation error, the empty
\* string as a base, and base references that chain and cycle.
Catalog(name) ==
    CASE name = "a" ->
        { Def(<<Num(97)>>, <<75>>, <<>>, <<>>, <<>>, <<>>),
          Def(<<Num(97), Num(100)>>, <<>>, <<>>, <<>>, <<>>, <<>>),
          Def(<<Num(120)>>, <<150>>, <<Num(400)>>, <<>>, <<>>, <<"fixed">>),
          Def(<<Num(52)>>, <<>>, <<Rel("+", 20)>>, <<>>, <<>>, <<"static">>),
          Def(<<Num(50)>>, <<>>, <<>>, <<"b">>, <<>>, <<>>),
          Def(<<Rel("-", 10)>>, <<>>, <<>>, <<"b">>, <<>>, <<>>),
          Def(<<Num(45)>>, <<>>, <<>>, <<"b">>, <<Preset("AA")>>, <<>>),
          Def(<<>>, <<50>>, <<>>, <<>>, <<>>, <<>>),
          Def(<<Num(50)>>, <<>>, <<>>, <<>>, <<Preset("AA")>>, <<>>),
          Def(<<Rel("-", 52)>>, <<>>, <<>>, <<>>, <<>>, <<>>),
          Def(<<Num(60)>>, <<>>, <<>>, <<"">>, <<>>, <<>>) }
      [] name = "b" ->
        { Def(<<Rel("-", 52)>>, <<>>, <<>>, <<"a">>, <<Preset("AAA")>>, <<>>),
          Def(<<Rel("-", 7), Rel("-", 20)>>, <<>>, <<>>, <<"a">>, <<Preset("AA-large")>>, <<>>),
          Def(<<>>, <<>>, <<>>, <<"a">>, <<>>, <<>>),
          Def(<<Rel("+", 48)>>, <<>>, <<>>, <<"a">>, <<Preset("AA")>>, <<"fixed">>),
          Def(<<Num(45)>>, <<>>, <<>>, <<"a">>, <<Preset("AAA")>>, <<>>),
          Def(<<Num(120)>>, <<>>, <<>>, <<"a">>, <<>>, <<"fixed">>),
          Def(<<Rel("-", 52)>>, <<0 - 50>>, <<Num(0 - 30)>>, <<"a">>, <<>>, <<"static">>),
          Def(<<>>, <<>>, <<>>, <<"a">>, <<Num(220)>>, <<>>),
          Def(<<Rel("-", 10)>>, <<>>, <<>>, <<"c">>, <<>>, <<>>),
          Def(<<Num(30)>>, <<>>, <<>>, <<>>, <<>>, <<>>),
          Def(<<>>, <<>>, <<>>, <<"">>, <<>>, <<>>),
          Def(<<Rel("-", 35), Rel("-", 50)>>, <<>>, <<>>, <<"a">>,
              <<Preset("AA-large"), Preset("AA")>>, <<>>) }
      [] name = "c" ->
        { Def(<<Rel("+", 20)>>, <<>>, <<>>, <<"b">>, <<Preset("AA")>>, <<>>),
          Def(<<Rel("-", 10)>>, <<>>, <<Rel("-", 300)>>, <<"a">>, <<>>, <<>>),
          Def(<<>>, <<>>, <<>>, <<"b">>, <<>>, <<>>),
          Def(<<Num(60)>>, <<>>, <<Num(40)>>, <<>>, <<>>, <<>>),
          Def(<<Rel("-", 5)>>, <<>>, <<>>, <<"c">>, <<>>, <<>>),
          Def(<<Num(70)>>, <<>>, <<>>, <<"b">>, <<Preset("AAA-large")>>, <<"static">>),
          Def(<<Rel("-", 10), Rel("-", 25)>>, <<>>, <<>>, <<"a">>, <<>>, <<"fixed">>) }
      [] OTHER ->
        { Def(<<>>, <<>>, <<>>, <<"c">>, <<Num(30)>>, <<>>) }

Names == {ColorNames[i] : i \in 1..Min2(MaxColors, Len(ColorNames))}

Entries == UNION {{[key |-> n, value |-> d] : d \in Catalog(n)} : n \in Names}

\* The ColorMaps: up to MaxColors entries with distinct keys, in any order
ColorMaps ==
    UNION {{m \in [1..k -> Entries] :
               \A i, j \in 1..k : m[i].key = m[j].key => i = j} :
           k \in 0..Cardinality(Names)}

\* glaze.resetConfig(): the defaults
DefaultConfig ==
    [darkLightness |-> <<10, 90>>, darkDesaturation |-> 10,
     states |-> [dark |-> "@dark", highContrast |-> "@high-contrast"],
     modes |-> [dark |-> TRUE, highContrast |-> FALSE]]

\* The theme seeds and global configurations: [hue, saturation, config]
Environments ==
    { [hue |-> 280, saturation |-> 80, config |-> DefaultConfig],
      [hue |-> 40, saturation |-> 120,
       config |-> [DefaultConfig EXCEPT !.darkLightness = <<20, 80>>,
                                        !.darkDesaturation = 25]] }

\* The inputs of the direct calls of findLightnessForContrast: preferred
\* lightnesses on and off the 4-decimal grid, at the ends of the range and
\* outside it, grey bases, floors that can and that cannot be met, and
\* lightness ranges.  epsilon and maxIterations are left to their defaults.
SolverHues == {280}

SolverSaturations == {0, 8 * (SOne \div 10)}

SolverPreferred ==
    { 0, 45 * LPct, 50 * LPct + 12345, 55 * LPct, 90 * LPct, LOne, 106 * LPct }

SolverBases == { 97 * LPct, 50 * LPct, 12 * LPct }

SolverContrasts == { Preset("AA"), Preset("AAA"), Num(5), Num(15), Num(220) }

SolverRanges == { <<0, LOne>>, <<0, 50 * LPct>>, <<20 * LPct, 80 * LPct>> }

\* maxIterations: the default, and a bound that ends the loop before the
\* bounds are nearer than epsilon
SolverIterations == { DefaultMaxIterations, DefaultMaxIterations \div 2 }

SolverInputs ==
    { [hue |-> h, saturation |-> s, preferredLightness |-> p,
       baseLinearRgb |-> okhslToLinearSrgb(0, 0, b), contrast |-> c,
       lightnessRange |-> r, epsilon |-> LOne \div DefaultEpsilonInv,
       maxIterations |-> n] :
      h \in SolverHues, s \in SolverSaturations, p \in SolverPreferred,
      b \in SolverBases, c \in SolverContrasts, r \in SolverRanges,
      n \in SolverIterations }

\* ------------------------------------------------------------------------
\* The state: a theme, the global configuration, a call of resolve() and a
\* direct call of the solver
\* ------------------------------------------------------------------------

VARIABLES
    hue,            \* the theme's seed hue
    saturation,     \* the theme's seed saturation, 0..100
    colorDefs,      \* the theme's ColorMap
    globalConfig,   \* glaze's global configuration
    run,            \* the call of resolveAllColors in progress
    call,           \* the last direct call of findLightnessForContrast
    luminanceCache, \* the solver's Map from key to luminance
    cacheOrder,     \* the solver's array of the keys of luminanceCache
    last,           \* the operation of the theme or of glaze called last
    derived         \* what export(), extend() or glaze.from() returned last

vars ==
    <<hue, saturation, colorDefs, globalConfig, run, call, luminanceCache, cacheOrder, last,
      derived>>

\* No direct call of the solver was made
NoCall == [pc |-> "idle"]

\* No operation was called
NoOperation == [op |-> "none", names |-> <<>>, defs |-> <<>>, returned |-> <<>>]

\* Nothing was exported or derived from the theme
NoDerived == [kind |-> "none", hue |-> 0, saturation |-> 0, colors |-> <<>>, same |-> FALSE]

Init ==
    /\ \E e \in Environments :
          /\ hue = e.hue
          /\ saturation = e.saturation
          /\ globalConfig = e.config
    /\ colorDefs \in ColorMaps
    /\ run = StartRun
    /\ call = NoCall
    /\ last = NoOperation
    /\ derived = NoDerived
    /\ luminanceCache = EmptyCache.luminanceCache
    /\ cacheOrder = EmptyCache.cacheOrder

Validate ==
    /\ run.pc = "validate"
    /\ run' = ValidateStep(colorDefs, run)
    /\ UNCHANGED <<derived, hue, saturation, colorDefs, globalConfig, call, luminanceCache,
                   cacheOrder, last>>

Sort ==
    /\ run.pc = "sort"
    /\ run' = SortStep(colorDefs, run)
    /\ UNCHANGED <<derived, hue, saturation, colorDefs, globalConfig, call, luminanceCache,
                   cacheOrder, last>>

Evaluate ==
    /\ run.pc \in PassPcs
    /\ \E st \in {EvaluateStep(Cache(luminanceCache, cacheOrder), globalConfig, hue,
                                 saturation, colorDefs, run)} :
          /\ run' = st.run
          /\ luminanceCache' = st.cache.luminanceCache
          /\ cacheOrder' = st.cache.cacheOrder
    /\ UNCHANGED <<derived, hue, saturation, colorDefs, globalConfig, call, last>>

Seed ==
    /\ run.pc \in SeedPcs
    /\ run' = SeedStep(colorDefs, run)
    /\ UNCHANGED <<derived, hue, saturation, colorDefs, globalConfig, call, luminanceCache,
                   cacheOrder, last>>

Build ==
    /\ run.pc = "build"
    /\ run' = BuildStep(colorDefs, run)
    /\ UNCHANGED <<derived, hue, saturation, colorDefs, globalConfig, call, luminanceCache,
                   cacheOrder, last>>

Next == Validate \/ Sort \/ Evaluate \/ Seed \/ Build

\* A call of theme.resolve() on any theme, statement by statement
Spec == Init /\ [][Next]_vars

\* ------------------------------------------------------------------------
\* Direct calls of the exported findLightnessForContrast
\* ------------------------------------------------------------------------

SolverInit ==
    /\ hue = 280
    /\ saturation = 80
    /\ globalConfig = DefaultConfig
    /\ colorDefs = <<>>
    /\ run = StartRun
    /\ call = NoCall
    /\ last = NoOperation
    /\ derived = NoDerived
    /\ luminanceCache = EmptyCache.luminanceCache
    /\ cacheOrder = EmptyCache.cacheOrder

\* findLightnessForContrast(o) is called, for the first time since the
\* module was loaded, and returns
SolverCall ==
    /\ call.pc = "idle"
    /\ \E o \in SolverInputs :
          \E out \in {findLightnessForContrast(Cache(luminanceCache, cacheOrder), o)} :
              /\ call' = [pc |-> "returned", options |-> o, result |-> out.result]
              /\ luminanceCache' = out.cache.luminanceCache
              /\ cacheOrder' = out.cache.cacheOrder
    /\ UNCHANGED <<derived, hue, saturation, colorDefs, globalConfig, run, last>>

SolverNext == SolverCall

SolverSpec == SolverInit /\ [][SolverNext]_vars

\* ------------------------------------------------------------------------
\* Calls of resolve() and of the solver, one after another, in one process:
\* luminanceCache and cacheOrder live as long as the module
\* ------------------------------------------------------------------------

\* The seed hues of the themes created one after another: the last has the
\* effective hues of the first, one turn further
CacheSeeds == <<280, 10, 100, 640>>

\* The seed hue that follows h in CacheSeeds
NextSeed(h) ==
    CacheSeeds[(CHOOSE i \in 1..Len(CacheSeeds) : CacheSeeds[i] = h) + 1]

\* The ColorMap of these themes: a root and three colours that are solved
\* against it, each of a hue and a saturation of its own, the floors being
\* out of reach of the preferred lightnesses
CacheColorMaps ==
    { << [key |-> "a", value |-> Def(<<Num(97)>>, <<75>>, <<>>, <<>>, <<>>, <<>>)],
         [key |-> "b", value |-> Def(<<Rel("-", 10), Rel("-", 15)>>, <<>>, <<Rel("+", 0)>>,
                                     <<"a">>, <<Preset("AAA"), Num(90)>>, <<>>)],
         [key |-> "c", value |-> Def(<<Rel("-", 20)>>, <<50>>, <<Rel("+", 20)>>, <<"a">>,
                                     <<Preset("AA"), Preset("AAA")>>, <<>>)],
         [key |-> "d", value |-> Def(<<Rel("-", 5), Rel("-", 8)>>, <<90>>,
                                     <<Rel("-", 30)>>, <<"a">>,
                                     <<Preset("AA-large"), Preset("AA")>>, <<"fixed">>)] >> }

\* The direct call made next to a theme of seed hue h: a colour of the hue
\* and the preferred lightness of the theme's colour b, less saturated,
\* against a light grey
CacheSolverInputs(h) ==
    { [hue |-> h % 360, saturation |-> 3 * (SOne \div 10),
       preferredLightness |-> 87 * LPct,
       baseLinearRgb |-> okhslToLinearSrgb(0, 0, 97 * LPct), contrast |-> Preset("AAA"),
       lightnessRange |-> <<0, LOne>>, epsilon |-> LOne \div DefaultEpsilonInv,
       maxIterations |-> DefaultMaxIterations] }

CacheInit ==
    /\ hue = CacheSeeds[1]
    /\ saturation = 80
    /\ globalConfig = DefaultConfig
    /\ colorDefs \in CacheColorMaps
    /\ run = StartRun
    /\ call = NoCall
    /\ last = NoOperation
    /\ derived = NoDerived
    /\ luminanceCache = EmptyCache.luminanceCache
    /\ cacheOrder = EmptyCache.cacheOrder

\* theme.resolve(): resolveAllColors runs to its end on the table as the
\* earlier calls left it
CacheResolve ==
    /\ \E st \in {resolveAllColors(Cache(luminanceCache, cacheOrder), globalConfig, hue,
                                   saturation, colorDefs)} :
          /\ run' = st.run
          /\ luminanceCache' = st.cache.luminanceCache
          /\ cacheOrder' = st.cache.cacheOrder
    /\ UNCHANGED <<derived, hue, saturation, colorDefs, globalConfig, call, last>>

\* findLightnessForContrast(o) is called on the table as the earlier calls
\* left it, and returns
CacheSolve ==
    /\ \E o \in CacheSolverInputs(hue) :
          \E out \in {findLightnessForContrast(Cache(luminanceCache, cacheOrder), o)} :
              /\ call' = [pc |-> "returned", options |-> o, result |-> out.result]
              /\ luminanceCache' = out.cache.luminanceCache
              /\ cacheOrder' = out.cache.cacheOrder
    /\ UNCHANGED <<derived, hue, saturation, colorDefs, globalConfig, run, last>>

\* glaze(hue', saturation).colors(colorDefs): a theme of the next seed hue,
\* on which resolve() was not called yet
CacheGlaze ==
    /\ hue # CacheSeeds[Len(CacheSeeds)]
    /\ hue' = NextSeed(hue)
    /\ run' = StartRun
    /\ UNCHANGED <<derived, saturation, colorDefs, globalConfig, call, luminanceCache,
                   cacheOrder, last>>

CacheNext == CacheResolve \/ CacheSolve \/ CacheGlaze

CacheSpec == CacheInit /\ [][CacheNext]_vars

\* ------------------------------------------------------------------------
\* Lookups of cachedLuminance, one after another, from the loading of the
\* module on
\* ------------------------------------------------------------------------

\* The number of different colours looked up: more than the table holds
MaxLookups == CACHE_SIZE + 8

\* The i-th different colour looked up: neighbours differ in the saturation
\* only, or in the hue only, or in the fourth decimal of the lightness
Probe(i) ==
    [h |-> IF (i \div 2) % 2 = 0 THEN 280 ELSE 10,
     s |-> IF i % 2 = 0 THEN 0 ELSE 8 * (SOne \div 10),
     l |-> (i \div 4) * (LOne \div RoundUnit)]

\* Offsets of a lightness that leave its 4 decimals as they are
Offsets == {0, 3}

\* cachedLuminance(p.h, p.s, p.l) is called and returns; n colours were
\* looked up up to now
Looked(p, n, pc) ==
    /\ \E out \in {cachedLuminance(Cache(luminanceCache, cacheOrder), p.h, p.s, p.l)} :
          /\ call' = [pc |-> pc, n |-> n, h |-> p.h, s |-> p.s, l |-> p.l, y |-> out.y]
          /\ luminanceCache' = out.cache.luminanceCache
          /\ cacheOrder' = out.cache.cacheOrder
    /\ UNCHANGED <<derived, hue, saturation, colorDefs, globalConfig, run, last>>

LookupInit ==
    /\ hue = 280
    /\ saturation = 80
    /\ globalConfig = DefaultConfig
    /\ colorDefs = <<>>
    /\ run = StartRun
    /\ call = [pc |-> "loaded", n |-> 0, h |-> 0, s |-> 0, l |-> 0, y |-> 0]
    /\ last = NoOperation
    /\ derived = NoDerived
    /\ luminanceCache = EmptyCache.luminanceCache
    /\ cacheOrder = EmptyCache.cacheOrder

\* A colour is looked up that was not looked up before
LookupNew ==
    /\ call.pc # "relooked"
    /\ call.n < MaxLookups
    /\ Looked(Probe(call.n), call.n + 1, "looked")

\* The colour stored first or last among those in the table is looked up
\* again, at a lightness of the same 4 decimals
LookupAgain ==
    /\ call.pc # "relooked"
    /\ Len(cacheOrder) > 0
    /\ \E i \in {call.n - Len(cacheOrder), call.n - 1}, d \in Offsets :
          Looked([Probe(i) EXCEPT !.l = @ + d], call.n, "looked")

\* The table having overflowed, the first colour is looked up again
LookupEvicted ==
    /\ call.pc = "looked"
    /\ call.n = MaxLookups
    /\ Looked(Probe(0), call.n, "relooked")

LookupNext == LookupNew \/ LookupAgain \/ LookupEvicted

LookupSpec == LookupInit /\ [][LookupNext]_vars

\* ------------------------------------------------------------------------
\* The operations of a theme and of the global configuration, one call
\* after another
\* ------------------------------------------------------------------------

RECURSIVE ObjectSpread(_, _)
\* { ...target, ...source }, target being a fresh copy: the keys of source
\* are set one by one
ObjectSpread(target, source) ==
    IF Len(source) = 0
    THEN target
    ELSE ObjectSpread(Set(target, Head(source).key, Head(source).value), Tail(source))

\* colors(defs): colorDefs = { ...colorDefs, ...defs }
colors(defs, given) ==
    ObjectSpread(ObjectSpread(<<>>, OwnProperties(defs)), OwnProperties(given))

\* color(name, def): the getter changes nothing, the setter assigns
\* colorDefs[name] = def
color(defs, name, def) ==
    IF Len(def) = 0 THEN defs ELSE Set(defs, name, def[1])

RECURSIVE remove(_, _)
\* remove(names), names being the list: for (const name of list) delete
\* colorDefs[name]
remove(defs, names) ==
    IF Len(names) = 0 THEN defs ELSE remove(Delete(defs, Head(names)), Tail(names))

\* has(name): name in colorDefs
has(defs, name) == In(defs, name)

\* list(): Object.keys(colorDefs)
list(defs) == Keys(OwnProperties(defs))

\* reset(): colorDefs = {}
reset == <<>>

\* glaze.configure(config): a field that is undefined keeps its value
configure(current, config) ==
    [darkLightness |-> IF Len(config.darkLightness) = 0
                       THEN current.darkLightness ELSE config.darkLightness[1],
     darkDesaturation |-> IF Len(config.darkDesaturation) = 0
                          THEN current.darkDesaturation ELSE config.darkDesaturation[1],
     states |-> [dark |-> IF Len(config.states) = 0 \/ Len(config.states[1].dark) = 0
                          THEN current.states.dark ELSE config.states[1].dark[1],
                 highContrast |->
                     IF Len(config.states) = 0 \/ Len(config.states[1].highContrast) = 0
                     THEN current.states.highContrast
                     ELSE config.states[1].highContrast[1]],
     modes |-> [dark |-> IF Len(config.modes) = 0 \/ Len(config.modes[1].dark) = 0
                         THEN current.modes.dark ELSE config.modes[1].dark[1],
                highContrast |->
                    IF Len(config.modes) = 0 \/ Len(config.modes[1].highContrast) = 0
                    THEN current.modes.highContrast
                    ELSE config.modes[1].highContrast[1]]]

\* The names the operations are called with
ThemeNames == {"a", "b", "c"}

\* The definitions they are called with: roots, a colour solved against its
\* base, a colour that inherits, and an absolute lightness next to a base
ThemeCatalog(name) ==
    CASE name = "a" ->
        { Def(<<Num(97)>>, <<75>>, <<>>, <<>>, <<>>, <<>>),
          Def(<<Num(50)>>, <<>>, <<>>, <<"b">>, <<>>, <<>>) }
      [] name = "b" ->
        { Def(<<Rel("-", 52)>>, <<>>, <<>>, <<"a">>, <<Preset("AAA")>>, <<>>),
          Def(<<Num(30)>>, <<>>, <<>>, <<>>, <<>>, <<>>) }
      [] OTHER ->
        { Def(<<>>, <<>>, <<Rel("+", 20)>>, <<"b">>, <<>>, <<"static">>) }

ThemeEntries == UNION {{[key |-> n, value |-> d] : d \in ThemeCatalog(n)} : n \in ThemeNames}

\* The arguments of colors(): ColorMaps of one or two entries
ColorsArguments ==
    UNION {{m \in [1..k -> ThemeEntries] :
               \A i, j \in 1..k : m[i].key = m[j].key => i = j} : k \in 1..2}

\* The arguments of remove(): a name, or an array of two names
RemoveArguments ==
    UNION {{m \in [1..k -> ThemeNames] : \A i, j \in 1..k : m[i] = m[j] => i = j} :
           k \in 1..2}

\* Arguments of glaze.configure(): each field is given or left undefined
Configurations ==
    { [darkLightness |-> w, darkDesaturation |-> d, states |-> <<>>, modes |-> <<>>] :
      w \in {<<>>, << <<20, 80>> >>}, d \in {<<>>, <<25>>} }

\* The arguments glaze.configure() is called with next to the operations of
\* a theme: both fields, or none
ConfigureArguments ==
    { c \in Configurations : Len(c.darkLightness) = Len(c.darkDesaturation) }

\* The operation called last, with its arguments and what it returned
Called(op, names, defs, returned) ==
    [op |-> op, names |-> names, defs |-> defs, returned |-> returned]

ThemeInit ==
    /\ \E e \in Environments :
          /\ hue = e.hue
          /\ saturation = e.saturation
          /\ globalConfig = e.config
    /\ colorDefs = <<>>
    /\ run = StartRun
    /\ call = NoCall
    /\ last = NoOperation
    /\ derived = NoDerived
    /\ luminanceCache = EmptyCache.luminanceCache
    /\ cacheOrder = EmptyCache.cacheOrder

\* theme.colors(defs)
Colors ==
    /\ \E defs \in ColorsArguments :
          /\ colorDefs' = colors(colorDefs, defs)
          /\ last' = Called("colors", Keys(defs), defs, <<>>)
    /\ UNCHANGED <<derived, hue, saturation, globalConfig, run, call, luminanceCache, cacheOrder>>

\* theme.color(name, def), and theme.color(name), which returns the
\* definition of a name that is defined
Color ==
    /\ \E e \in ThemeEntries : \E def \in {<<>>, <<e.value>>} :
          /\ colorDefs' = color(colorDefs, e.key, def)
          /\ last' = Called("color", <<e.key>>,
                            IF Len(def) = 0 THEN <<>> ELSE <<e>>,
                            IF Len(def) = 0 /\ Has(colorDefs, e.key)
                            THEN <<Get(colorDefs, e.key)>> ELSE <<>>)
    /\ UNCHANGED <<derived, hue, saturation, globalConfig, run, call, luminanceCache, cacheOrder>>

\* theme.remove(names)
Remove ==
    /\ \E names \in RemoveArguments :
          /\ colorDefs' = remove(colorDefs, names)
          /\ last' = Called("remove", names, <<>>, <<>>)
    /\ UNCHANGED <<derived, hue, saturation, globalConfig, run, call, luminanceCache, cacheOrder>>

\* theme.reset()
Reset ==
    /\ colorDefs' = reset
    /\ last' = Called("reset", <<>>, <<>>, <<>>)
    /\ UNCHANGED <<derived, hue, saturation, globalConfig, run, call, luminanceCache, cacheOrder>>

\* glaze.configure(config)
Configure ==
    /\ \E config \in ConfigureArguments :
          globalConfig' = configure(globalConfig, config)
    /\ last' = Called("configure", <<>>, <<>>, <<>>)
    /\ UNCHANGED <<derived, hue, saturation, colorDefs, run, call, luminanceCache, cacheOrder>>

\* glaze.resetConfig()
ResetConfig ==
    /\ globalConfig' = DefaultConfig
    /\ last' = Called("resetConfig", <<>>, <<>>, <<>>)
    /\ UNCHANGED <<derived, hue, saturation, colorDefs, run, call, luminanceCache, cacheOrder>>

\* resolve() that leaves the definitions in the reverse order
ResolveReordering ==
    /\ \E st \in {resolveAllColors(Cache(luminanceCache, cacheOrder), globalConfig, hue,
                                   saturation, colorDefs)} :
          /\ last' = Called("resolve", <<>>, <<>>, <<st.run>>)
          /\ colorDefs' = [i \in 1..Len(colorDefs) |-> colorDefs[Len(colorDefs) + 1 - i]]
          /\ luminanceCache' = st.cache.luminanceCache
          /\ cacheOrder' = st.cache.cacheOrder
    /\ UNCHANGED <<derived, hue, saturation, globalConfig, run, call>>

\* theme.resolve(): resolveAllColors(hue, saturation, colorDefs) runs to its
\* end, and what it returns or throws goes to the caller
Resolve ==
    /\ \E st \in {resolveAllColors(Cache(luminanceCache, cacheOrder), globalConfig, hue,
                                   saturation, colorDefs)} :
          /\ last' = Called("resolve", <<>>, <<>>, <<st.run>>)
          /\ luminanceCache' = st.cache.luminanceCache
          /\ cacheOrder' = st.cache.cacheOrder
    /\ UNCHANGED <<derived, hue, saturation, colorDefs, globalConfig, run, call>>

ThemeNext ==
    Colors \/ Color \/ Remove \/ Reset \/ Configure \/ ResetConfig \/ Resolve

ThemeSpec == ThemeInit /\ [][ThemeNext]_vars

\* ------------------------------------------------------------------------
\* The exports of a theme: tokens(), tasty(), json() and css()
\* ------------------------------------------------------------------------
\* GlazeOutputModes is [dark, highContrast], each field optional; the options
\* of an export are [modes, states, format, suffix], each optional.

\* formatVariant(v, format): the text of a colour in a syntax, a function of
\* the syntax and of h, s, l
formatVariant(v, format) == <<format, v.h, v.s, v.l>>

\* resolveModes that takes the modes of a call as a whole: a flag the call
\* leaves out is off
resolveModesWhole(config, override) ==
    IF Len(override) = 0
    THEN config.modes
    ELSE [dark |-> Len(override[1].dark) = 1 /\ override[1].dark[1],
          highContrast |-> Len(override[1].highContrast) = 1
                               /\ override[1].highContrast[1]]

\* resolveModes(override) under globalConfig = config
resolveModes(config, override) ==
    [dark |-> IF Len(override) = 0 \/ Len(override[1].dark) = 0
              THEN config.modes.dark ELSE override[1].dark[1],
     highContrast |-> IF Len(override) = 0 \/ Len(override[1].highContrast) = 0
                      THEN config.modes.highContrast ELSE override[1].highContrast[1]]

\* entry[key] = value when cond, entry being an object
SetIf(cond, entry, key, value) == IF cond THEN Set(entry, key, value) ELSE entry

\* The entry of a colour in buildTokenMap
TokenEntry(resolvedColor, states, modes, format) ==
    SetIf(modes.dark /\ modes.highContrast,
        SetIf(modes.highContrast,
            SetIf(modes.dark,
                Set(<<>>, "", formatVariant(resolvedColor.light, format)),
                states.dark, formatVariant(resolvedColor.dark, format)),
            states.highContrast, formatVariant(resolvedColor.lightContrast, format)),
        states.dark \o " & " \o states.highContrast,
        formatVariant(resolvedColor.darkContrast, format))

RECURSIVE TokensFrom(_, _, _, _, _, _, _)
\* The loop of buildTokenMap from entry k of resolved on
TokensFrom(resolved, k, prefix, states, modes, format, tokens) ==
    IF k > Len(resolved)
    THEN tokens
    ELSE TokensFrom(resolved, k + 1, prefix, states, modes, format,
             Set(tokens, "#" \o prefix \o resolved[k].key,
                 TokenEntry(resolved[k].value, states, modes, format)))

buildTokenMap(resolved, prefix, states, modes, format) ==
    TokensFrom(resolved, 1, prefix, states, modes, format, <<>>)

\* result[variant][key] = value when cond
SetIn(cond, result, variant, key, value) ==
    IF cond THEN Set(result, variant, Set(Get(result, variant), key, value)) ELSE result

RECURSIVE FlatFrom(_, _, _, _, _, _)
\* The loop of buildFlatTokenMap from entry k of resolved on
FlatFrom(resolved, k, prefix, modes, format, result) ==
    IF k > Len(resolved)
    THEN result
    ELSE FlatFrom(resolved, k + 1, prefix, modes, format,
             SetIn(modes.dark /\ modes.highContrast,
                 SetIn(modes.highContrast,
                     SetIn(modes.dark,
                         SetIn(TRUE, result, "light", prefix \o resolved[k].key,
                               formatVariant(resolved[k].value.light, format)),
                         "dark", prefix \o resolved[k].key,
                         formatVariant(resolved[k].value.dark, format)),
                     "lightContrast", prefix \o resolved[k].key,
                     formatVariant(resolved[k].value.lightContrast, format)),
                 "darkContrast", prefix \o resolved[k].key,
                 formatVariant(resolved[k].value.darkContrast, format)))

buildFlatTokenMap(resolved, prefix, modes, format) ==
    FlatFrom(resolved, 1, prefix, modes, format,
        SetIf(modes.dark /\ modes.highContrast,
            SetIf(modes.highContrast,
                SetIf(modes.dark, Set(<<>>, "light", <<>>), "dark", <<>>),
                "lightContrast", <<>>),
            "darkContrast", <<>>))

\* The entry of a colour in buildJsonMap
JsonEntry(resolvedColor, modes, format) ==
    SetIf(modes.dark /\ modes.highContrast,
        SetIf(modes.highContrast,
            SetIf(modes.dark,
                Set(<<>>, "light", formatVariant(resolvedColor.light, format)),
                "dark", formatVariant(resolvedColor.dark, format)),
            "lightContrast", formatVariant(resolvedColor.lightContrast, format)),
        "darkContrast", formatVariant(resolvedColor.darkContrast, format))

RECURSIVE JsonFrom(_, _, _, _, _)
\* The loop of buildJsonMap from entry k of resolved on
JsonFrom(resolved, k, modes, format, result) ==
    IF k > Len(resolved)
    THEN result
    ELSE JsonFrom(resolved, k + 1, modes, format,
             Set(result, resolved[k].key, JsonEntry(resolved[k].value, modes, format)))

buildJsonMap(resolved, modes, format) == JsonFrom(resolved, 1, modes, format, <<>>)

\* `${prop}: ${formatVariant(v, format)};`, a line of css
CssLine(prefix, name, suffix, v, format) ==
    [prop |-> "--" \o prefix \o name \o suffix, value |-> formatVariant(v, format)]

\* buildCssMap: the lines of each variant, which the code joins with '\n'
buildCssMap(resolved, prefix, suffix, format) ==
    [light |-> [k \in 1..Len(resolved) |->
                   CssLine(prefix, resolved[k].key, suffix, resolved[k].value.light, format)],
     dark |-> [k \in 1..Len(resolved) |->
                  CssLine(prefix, resolved[k].key, suffix, resolved[k].value.dark, format)],
     lightContrast |->
         [k \in 1..Len(resolved) |->
             CssLine(prefix, resolved[k].key, suffix, resolved[k].value.lightContrast,
                     format)],
     darkContrast |->
         [k \in 1..Len(resolved) |->
             CssLine(prefix, resolved[k].key, suffix, resolved[k].value.darkContrast,
                     format)]]

\* value ?? fallback, value being optional
OrElse(value, fallback) == IF Len(value) = 0 THEN fallback ELSE value[1]

\* theme.tokens(options), resolved being the Map resolveAllColors returned
tokens(config, resolved, options) ==
    buildFlatTokenMap(resolved, "", resolveModes(config, options.modes),
                      OrElse(options.format, "okhsl"))

\* theme.tasty(options)
tasty(config, resolved, options) ==
    buildTokenMap(resolved, "",
        [dark |-> IF Len(options.states) = 0 \/ Len(options.states[1].dark) = 0
                  THEN config.states.dark ELSE options.states[1].dark[1],
         highContrast |->
             IF Len(options.states) = 0 \/ Len(options.states[1].highContrast) = 0
             THEN config.states.highContrast ELSE options.states[1].highContrast[1]],
        resolveModes(config, options.modes), OrElse(options.format, "okhsl"))

\* theme.json(options)
json(config, resolved, options) ==
    buildJsonMap(resolved, resolveModes(config, options.modes),
                 OrElse(options.format, "okhsl"))

\* theme.css(options): of the options it reads suffix and format
css(config, resolved, options) ==
    buildCssMap(resolved, "", OrElse(options.suffix, "-color"),
                OrElse(options.format, "rgb"))

\* The names of the colours of a theme that is exported: a name and an
\* array index
OutputNames == {"b", "1"}

\* Their definitions: roots, and a colour positioned on its base
OutputCatalog(name) ==
    CASE name = "b" -> { Def(<<Num(50), Num(40)>>, <<>>, <<>>, <<>>, <<>>, <<>>) }
      [] name = "1" -> { Def(<<Rel("-", 10)>>, <<>>, <<>>, <<"b">>, <<>>, <<>>),
                         Def(<<Num(60)>>, <<>>, <<>>, <<>>, <<>>, <<>>) }

\* A flag of GlazeOutputModes: left out, true or false
Flags == {<<>>, <<TRUE>>, <<FALSE>>}

\* The modes an export or glaze.configure is called with: none, or an
\* object with each flag given or left out
ModesArguments ==
    {<<>>} \cup {<<[dark |-> d, highContrast |-> h]>> : d \in Flags, h \in Flags}

\* The options of an export
OutputOptions ==
    {[modes |-> o, states |-> <<>>, format |-> <<>>, suffix |-> <<>>] :
        o \in ModesArguments}

\* An export was called with options while the configuration was config,
\* and returned (returned has one element) or threw (none); st is what its
\* call of resolveAllColors left
Exported(op, options, st, returned) ==
    [op |-> op, options |-> options, run |-> st.run,
     returned |-> IF st.run.pc = "done" THEN <<returned>> ELSE <<>>]

OutputInit ==
    /\ hue = 280
    /\ saturation = 80
    /\ globalConfig = DefaultConfig
    /\ colorDefs = <<>>
    /\ run = StartRun
    /\ call = NoCall
    /\ last = NoOperation
    /\ derived = NoDerived
    /\ luminanceCache = EmptyCache.luminanceCache
    /\ cacheOrder = EmptyCache.cacheOrder

\* theme.color(name, def), name being new to the theme
OutputColor ==
    /\ \E name \in OutputNames :
          /\ ~Has(colorDefs, name)
          /\ \E def \in OutputCatalog(name) :
                /\ colorDefs' = color(colorDefs, name, <<def>>)
                /\ last' = Called("color", <<name>>, <<[key |-> name, value |-> def]>>, <<>>)
    /\ UNCHANGED <<derived, hue, saturation, globalConfig, run, call, luminanceCache, cacheOrder>>

\* glaze.configure({ modes })
OutputConfigure ==
    /\ \E o \in ModesArguments :
          /\ globalConfig' = configure(globalConfig,
                                 [darkLightness |-> <<>>, darkDesaturation |-> <<>>,
                                  states |-> <<>>, modes |-> o])
          /\ last' = [op |-> "configure", modes |-> o]
    /\ UNCHANGED <<derived, hue, saturation, colorDefs, run, call, luminanceCache, cacheOrder>>

\* glaze.resetConfig()
OutputResetConfig ==
    /\ globalConfig' = DefaultConfig
    /\ last' = [op |-> "resetConfig"]
    /\ UNCHANGED <<derived, hue, saturation, colorDefs, run, call, luminanceCache, cacheOrder>>

\* An export op of the theme is called with options: it calls
\* resolveAllColors, which leaves st, and returns returned
Export(op, options, st, returned) ==
    /\ last' = Exported(op, options, st, returned)
    /\ luminanceCache' = st.cache.luminanceCache
    /\ cacheOrder' = st.cache.cacheOrder
    /\ UNCHANGED <<derived, hue, saturation, colorDefs, globalConfig, run, call>>

\* theme.tokens(options)
Tokens ==
    \E o \in OutputOptions :
        \E st \in {resolveAllColors(Cache(luminanceCache, cacheOrder), globalConfig,
                                      hue, saturation, colorDefs)} :
            Export("tokens", o, st, tokens(globalConfig, st.run.result, o))

\* theme.tasty(options)
Tasty ==
    \E o \in OutputOptions :
        \E st \in {resolveAllColors(Cache(luminanceCache, cacheOrder), globalConfig,
                                      hue, saturation, colorDefs)} :
            Export("tasty", o, st, tasty(globalConfig, st.run.result, o))

\* theme.json(options)
Json ==
    \E o \in OutputOptions :
        \E st \in {resolveAllColors(Cache(luminanceCache, cacheOrder), globalConfig,
                                      hue, saturation, colorDefs)} :
            Export("json", o, st, json(globalConfig, st.run.result, o))

\* theme.css(options)
Css ==
    \E o \in OutputOptions :
        \E st \in {resolveAllColors(Cache(luminanceCache, cacheOrder), globalConfig,
                                      hue, saturation, colorDefs)} :
            Export("css", o, st, css(globalConfig, st.run.result, o))

OutputNext ==
    OutputColor \/ OutputConfigure \/ OutputResetConfig \/ Tokens \/ Tasty \/ Json \/ Css

OutputSpec == OutputInit /\ [][OutputNext]_vars

\* ------------------------------------------------------------------------
\* What a theme gives away: export(), extend() and glaze.from()
\* ------------------------------------------------------------------------

\* A reference to a ColorMap object: props are the properties of the object,
\* and same tells whether it is the very object that the colorDefs of the
\* original theme refers to.  An assignment or a delete through one of two
\* references to the same object is seen through the other
Ref(same, props) == [same |-> same, props |-> props]

\* { ...obj }: a new object with the own properties of the object ref refers to
Copy(ref) == Ref(FALSE, ObjectSpread(<<>>, OwnProperties(ref.props)))

\* createTheme(hue, saturation, initialColors): the closure of the new theme,
\* let colorDefs = initialColors ? { ...initialColors } : {}
createTheme(h, s, initialColors) ==
    [hue |-> h, saturation |-> s,
     colorDefs |-> IF Len(initialColors) = 0 THEN Ref(FALSE, <<>>)
                   ELSE Copy(initialColors[1])]

\* export() that hands out colorDefs itself
exportShared(h, s, defs) ==
    [hue |-> h, saturation |-> s, colors |-> Ref(TRUE, defs)]

\* export() of the theme of hue h, saturation s and colorDefs defs
export(h, s, defs) ==
    [hue |-> h, saturation |-> s, colors |-> Copy(Ref(TRUE, defs))]

\* extend(options) of the theme of hue h, saturation s and colorDefs defs
extend(h, s, defs, options) ==
    createTheme(OrElse(options.hue, h), OrElse(options.saturation, s),
        << IF Len(options.colors) = 1
           THEN Ref(FALSE, ObjectSpread(ObjectSpread(<<>>, OwnProperties(defs)),
                                        OwnProperties(options.colors[1])))
           ELSE Copy(Ref(TRUE, defs)) >>)

\* glaze.from(data)
from(data) == createTheme(data.hue, data.saturation, <<data.colors>>)

\* The names of the colours of a theme that is exported or extended
IsolationNames == {"a", "c"}

\* Their definitions
IsolationCatalog(name) ==
    CASE name = "a" -> { Def(<<Num(97)>>, <<>>, <<>>, <<>>, <<>>, <<>>),
                         Def(<<Num(50)>>, <<>>, <<>>, <<>>, <<>>, <<>>) }
      [] name = "c" -> { Def(<<Num(30)>>, <<>>, <<>>, <<>>, <<>>, <<>>) }

IsolationEntries ==
    UNION {{[key |-> n, value |-> d] : d \in IsolationCatalog(n)} : n \in IsolationNames}

\* The ColorMaps that colors() and extend() are called with
IsolationMaps == { <<e>> : e \in IsolationEntries }

\* The options of extend(): each field is given or left out
ExtendOptions ==
    { [hue |-> h, saturation |-> s, colors |-> c] :
      h \in {<<>>, <<120>>}, s \in {<<>>, <<40>>},
      c \in {<<>>} \cup { <<m>> : m \in IsolationMaps } }

\* An export object or a derived theme, as the variable derived holds it
Derived(kind, h, s, ref) ==
    [kind |-> kind, hue |-> h, saturation |-> s, colors |-> ref.props, same |-> ref.same]

\* The operation op called on the original theme, on the derived theme or
\* on the export object
Acted(on, op) == [op |-> op, on |-> on]

IsolationInit ==
    /\ hue = 280
    /\ saturation = 80
    /\ globalConfig = DefaultConfig
    /\ colorDefs = <<>>
    /\ run = StartRun
    /\ call = NoCall
    /\ last = Acted("original", "glaze")
    /\ derived = NoDerived
    /\ luminanceCache = EmptyCache.luminanceCache
    /\ cacheOrder = EmptyCache.cacheOrder

\* An operation of the original theme that binds colorDefs to the new
\* object defs: what was given away keeps the object it has
Rebinds(op, defs) ==
    /\ colorDefs' = defs
    /\ derived' = [derived EXCEPT !.same = FALSE]
    /\ last' = Acted("original", op)
    /\ UNCHANGED <<hue, saturation, globalConfig, run, call, luminanceCache, cacheOrder>>

\* An operation of the original theme that changes the object of colorDefs
\* in place, leaving it with the properties defs
Changes(op, defs) ==
    /\ colorDefs' = defs
    /\ derived' = IF derived.same THEN [derived EXCEPT !.colors = defs] ELSE derived
    /\ last' = Acted("original", op)
    /\ UNCHANGED <<hue, saturation, globalConfig, run, call, luminanceCache, cacheOrder>>

\* original.colors(defs)
OriginalColors == \E defs \in IsolationMaps : Rebinds("colors", colors(colorDefs, defs))

\* original.color(name, def)
OriginalColor ==
    \E e \in IsolationEntries : Changes("color", color(colorDefs, e.key, <<e.value>>))

\* original.remove(name)
OriginalRemove ==
    \E name \in IsolationNames :
        Has(colorDefs, name) /\ Changes("remove", remove(colorDefs, <<name>>))

\* original.reset()
OriginalReset == colorDefs # <<>> /\ Rebinds("reset", reset)

\* Something is given away: an export object or a theme
GivesAway(op, kind, h, s, ref) ==
    /\ derived' = Derived(kind, h, s, ref)
    /\ last' = Acted("original", op)
    /\ UNCHANGED <<hue, saturation, colorDefs, globalConfig, run, call, luminanceCache,
                   cacheOrder>>

\* original.export()
OriginalExport ==
    \E e \in {export(hue, saturation, colorDefs)} :
        GivesAway("export", "export", e.hue, e.saturation, e.colors)

\* original.extend(options)
OriginalExtend ==
    \E options \in ExtendOptions :
        \E t \in {extend(hue, saturation, colorDefs, options)} :
            GivesAway("extend", "theme", t.hue, t.saturation, t.colorDefs)

\* glaze.from(data), data being the object that export() returned
From ==
    /\ derived.kind = "export"
    /\ \E t \in {from([hue |-> derived.hue, saturation |-> derived.saturation,
                       colors |-> Ref(derived.same, derived.colors)])} :
          /\ derived' = Derived("theme", t.hue, t.saturation, t.colorDefs)
          /\ last' = Acted("glaze", "from")
    /\ UNCHANGED <<hue, saturation, colorDefs, globalConfig, run, call, luminanceCache,
                   cacheOrder>>

\* An operation of the derived theme that binds its colorDefs to the new
\* object defs
DerivedRebinds(op, defs) ==
    /\ derived.kind = "theme"
    /\ derived' = [derived EXCEPT !.colors = defs, !.same = FALSE]
    /\ last' = Acted("derived", op)
    /\ UNCHANGED <<hue, saturation, colorDefs, globalConfig, run, call, luminanceCache,
                   cacheOrder>>

\* An operation of the derived theme, or an assignment to the colors of the
\* export object, that changes the object in place, leaving it with the
\* properties defs
DerivedChanges(kind, op, defs) ==
    /\ derived.kind = kind
    /\ derived' = [derived EXCEPT !.colors = defs]
    /\ colorDefs' = IF derived.same THEN defs ELSE colorDefs
    /\ last' = Acted("derived", op)
    /\ UNCHANGED <<hue, saturation, globalConfig, run, call, luminanceCache, cacheOrder>>

\* derived.colors(defs)
DerivedColors ==
    \E defs \in IsolationMaps : DerivedRebinds("colors", colors(derived.colors, defs))

\* derived.color(name, def)
DerivedColor ==
    \E e \in IsolationEntries :
        DerivedChanges("theme", "color", color(derived.colors, e.key, <<e.value>>))

\* derived.remove(name)
DerivedRemove ==
    \E name \in IsolationNames :
        /\ Has(derived.colors, name)
        /\ DerivedChanges("theme", "remove", remove(derived.colors, <<name>>))

\* derived.reset()
DerivedReset == derived.colors # <<>> /\ DerivedRebinds("reset", reset)

\* exported.colors[name] = def, by the holder of the export object
ExportedAssign ==
    \E e \in IsolationEntries :
        DerivedChanges("export", "assign", Set(derived.colors, e.key, e.value))

IsolationNext ==
    \/ OriginalColors \/ OriginalColor \/ OriginalRemove \/ OriginalReset
    \/ OriginalExport \/ OriginalExtend \/ From
    \/ DerivedColors \/ DerivedColor \/ DerivedRemove \/ DerivedReset \/ ExportedAssign

IsolationSpec == IsolationInit /\ [][IsolationNext]_vars

\* ------------------------------------------------------------------------
\* Properties of resolve() and of the solver
\* ------------------------------------------------------------------------

\* WCAG relative luminance of a resolved variant, at exactly its lightness
Luminance(v) ==
    relativeLuminanceFromLinearRgb(okhslToLinearSrgb(v.h, v.s, v.l))

\* The contrast ratio against yBase of the colour (h, s, l), its luminance
\* being taken at the lightness rounded to 4 decimals
RoundedCr(h, s, l, yBase) ==
    contrastRatioFromLuminance(
        relativeLuminanceFromLinearRgb(okhslToLinearSrgb(h, s, LRounded(l))), yBase)

\* The resolved contrast floor of a definition for a variant
ContrastFloor(def, isHighContrast) ==
    resolveMinContrast(IF isHighContrast
                       THEN pairHC(def.contrast)
                       ELSE pairNormal(def.contrast))

\* The entries of a ColorMap that declare a base and a contrast floor
Contrasting(defs) ==
    {i \in 1..Len(defs) : Len(defs[i].value.base) = 1 /\ Len(defs[i].value.contrast) > 0}

\* The solver call made for a colour's variant
CallsOf(calls, name, isDark, isHighContrast) ==
    {k \in 1..Len(calls) : /\ calls[k].name = name
                           /\ calls[k].isDark = isDark
                           /\ calls[k].isHighContrast = isHighContrast}

\* The solver was handed a colour of the OKHSL solid
InDomain(options) ==
    /\ options.saturation \in 0..SOne
    /\ options.preferredLightness \in 0..LOne

GridIn(range) ==
    {k * (LOne \div RoundUnit) :
        k \in ((range[1] + (LOne \div RoundUnit) - 1) \div (LOne \div RoundUnit))
              .. (range[2] \div (LOne \div RoundUnit))}

\* The contrast ratio of the candidate of lightness l of a solver call
CandidateCr(o, l) ==
    RoundedCr(o.hue, o.saturation, l, relativeLuminanceFromLinearRgb(o.baseLinearRgb))

\* The lightnesses of the range that meet the target of a solver call
PassingIn(o) ==
    {l \in GridIn(o.lightnessRange) : CrGE(CandidateCr(o, l), resolveMinContrast(o.contrast))}

\* C2: with the default epsilon and maxIterations, if some lightness within
\* the range meets the target the result has met = true and a lightness
\* within epsilon of a passing lightness and, up to epsilon, as near to
\* preferredLightness as any passing lightness; otherwise it has met = false
\* and a lightness of the greatest contrast ratio within the range.
C2_MeetsOrMaximises ==
    call.pc = "returned" /\ call.options.maxIterations = DefaultMaxIterations =>
        IF PassingIn(call.options) # {}
        THEN /\ call.result.met
             /\ \E p \in PassingIn(call.options) :
                   Abs(call.result.lightness - p) <= call.options.epsilon
             /\ \A q \in PassingIn(call.options) :
                   Abs(call.result.lightness - call.options.preferredLightness)
                       <= Abs(q - call.options.preferredLightness) + call.options.epsilon
        ELSE /\ ~call.result.met
             /\ \A l \in GridIn(call.options.lightnessRange) :
                   CrGE(CandidateCr(call.options, call.result.lightness),
                        CandidateCr(call.options, l))

\* The pcs of a run whose validation and sort are behind it
AfterSort == PassPcs \cup SeedPcs \cup {"build", "done"}

\* C3: for a ColorMap that passes validation the evaluation order places
\* every colour that declares a base after that base, the error 'base ... not
\* yet resolved' is never thrown, and resolve returns.
C3_BasesResolvedFirst ==
    /\ run.error # "not-yet-resolved"
    /\ run.pc \in AfterSort =>
          \A i, j \in 1..Len(run.order) :
              ( /\ Len(Get(colorDefs, run.order[i]).base) = 1
                /\ Get(colorDefs, run.order[i]).base[1] = run.order[j] ) => j < i

\* The ColorMaps holding the entries of defs in any insertion order
Reorderings(defs) ==
    {[i \in 1..Len(defs) |-> defs[p[i]]] :
        p \in {q \in [1..Len(defs) -> 1..Len(defs)] :
                 \A i, j \in 1..Len(defs) : q[i] = q[j] => i = j}}

\* Two runs at their end agree: both threw, or both returned the same four
\* variants for every name
SameResolution(r1, r2) ==
    \/ r1.pc = "threw" /\ r2.pc = "threw"
    \/ /\ r1.pc = "done" /\ r2.pc = "done"
       /\ \A i \in 1..Len(r1.result) :
             /\ Has(r2.result, r1.result[i].key)
             /\ Get(r2.result, r1.result[i].key).light = r1.result[i].value.light
             /\ Get(r2.result, r1.result[i].key).dark = r1.result[i].value.dark
             /\ Get(r2.result, r1.result[i].key).lightContrast
                    = r1.result[i].value.lightContrast
             /\ Get(r2.result, r1.result[i].key).darkContrast
                    = r1.result[i].value.darkContrast

\* C4: insertion order does not affect resolution: every reordering of the
\* ColorMap fails when this one fails, and returns the same four variants
\* for every name when this one returns.
C4_OrderIrrelevant ==
    run.pc \in {"done", "threw"} =>
        \A d \in Reorderings(colorDefs) :
            SameResolution(run,
                resolveAllColors(EmptyCache, globalConfig, hue, saturation, d).run)

\* The name reached from name by following k base references, if there is one
RECURSIVE BaseAfter(_, _, _)
BaseAfter(defs, name, k) ==
    IF k = 0 THEN <<name>>
    ELSE IF ~Has(defs, name) THEN <<>>
    ELSE IF Len(Get(defs, name).base) = 0 THEN <<>>
    ELSE BaseAfter(defs, Get(defs, name).base[1], k - 1)

\* name lies on a cycle of base references of length k
OnBaseCycle(defs, name, k) ==
    /\ BaseAfter(defs, name, k) = <<name>>
    /\ \A j \in 1..(k - 1) : BaseAfter(defs, name, j) # <<name>>

\* One of the four fatal declarations of a definition
DeclaresInvalid(defs, def) ==
    \/ Len(def.contrast) > 0 /\ Len(def.base) = 0
    \/ Len(def.lightness) > 0 /\ def.lightness[1].t = "rel" /\ Len(def.base) = 0
    \/ Len(def.base) = 1 /\ ~Has(defs, def.base[1])
    \/ ~(Len(def.lightness) > 0 /\ def.lightness[1].t = "num") /\ Len(def.base) = 0

SomeInvalid(defs) == \E i \in 1..Len(defs) : DeclaresInvalid(defs, defs[i].value)

\* C5: a cycle of base references of length >= 2, every base existing,
\* makes resolve throw the circular-base error whatever the other fields of
\* the definitions on the cycle are (no definition of the map being invalid
\* for another reason).
C5_CycleThrowsCircular ==
    ( /\ run.pc # "validate"
      /\ ~SomeInvalid(colorDefs)
      /\ \E i \in 1..Len(colorDefs), k \in 2..Len(colorDefs) :
            OnBaseCycle(colorDefs, colorDefs[i].key, k) )
    => (run.pc = "threw" /\ run.error = "circular")

\* The errors of the four fatal declarations
DeclarationErrors ==
    {"contrast-without-base", "relative-without-base", "non-existent-base",
     "missing-position"}

\* C6: if any definition declares a contrast floor without base, a relative
\* lightness without base, a base that names no colour of the map, or neither
\* absolute lightness nor base, resolve throws before any colour is
\* evaluated and returns nothing, even when the other definitions are valid.
C6_InvalidAborts ==
    (SomeInvalid(colorDefs) /\ run.pc # "validate") =>
        /\ run.pc = "threw"
        /\ run.error \in DeclarationErrors
        /\ run.order = <<>> /\ run.calls = <<>>
        /\ run.resolved = <<>> /\ run.result = <<>>
        /\ run.lightMap = <<>> /\ run.lightHCMap = <<>>
        /\ run.darkMap = <<>> /\ run.darkHCMap = <<>>

\* The entries with an absolute lightness, an existing base and no contrast
AbsoluteWithBase(defs) ==
    {i \in 1..Len(defs) :
        /\ Len(defs[i].value.lightness) > 0
        /\ defs[i].value.lightness[1].t = "num"
        /\ Len(defs[i].value.base) = 1
        /\ Has(defs, defs[i].value.base[1])
        /\ Len(defs[i].value.contrast) = 0}

\* The ColorMap with the base field of entry i removed
WithoutBase(defs, i) ==
    [k \in 1..Len(defs) |->
        IF k = i
        THEN [key |-> defs[k].key, value |-> [defs[k].value EXCEPT !.base = <<>>]]
        ELSE defs[k]]

\* Some base reference of the map lies on a cycle, of any length
Cyclic(defs) ==
    \E i \in 1..Len(defs), k \in 1..Len(defs) : OnBaseCycle(defs, defs[i].key, k)

\* C7: a definition with an absolute lightness and an existing base, and no
\* contrast floor, is not fatal: in a map that is valid otherwise resolve
\* succeeds, and the colour's four variants are those it has with the base
\* field removed.
C7_AbsoluteLightnessWins ==
    (run.pc \in {"done", "threw"} /\ ~SomeInvalid(colorDefs) /\ ~Cyclic(colorDefs)) =>
        \A i \in AbsoluteWithBase(colorDefs) :
            /\ run.pc = "done"
            /\ resolveAllColors(EmptyCache, globalConfig, hue, saturation,
                                WithoutBase(colorDefs, i)).run.pc = "done"
            /\ [Get(run.result, colorDefs[i].key) EXCEPT !.mode = "auto"]
                 = [Get(resolveAllColors(EmptyCache, globalConfig, hue, saturation,
                                         WithoutBase(colorDefs, i)).run.result,
                        colorDefs[i].key) EXCEPT !.mode = "auto"]

\* C8: for a valid acyclic ColorMap resolve ends by returning, and its result
\* has exactly the input names as keys, each entry carrying its name, the
\* four variants and the adaptation mode ('auto' by default).
C8_OneEntryPerName ==
    (~SomeInvalid(colorDefs) /\ ~Cyclic(colorDefs)) =>
        /\ run.pc # "threw"
        /\ run.pc = "done" =>
              /\ Len(run.result) = Len(colorDefs)
              /\ \A i \in 1..Len(colorDefs) :
                    /\ Has(run.result, colorDefs[i].key)
                    /\ Get(run.result, colorDefs[i].key).name = colorDefs[i].key
                    /\ Get(run.result, colorDefs[i].key).mode
                          = (IF Len(colorDefs[i].value.mode) = 0
                             THEN "auto" ELSE colorDefs[i].value.mode[1])
                    /\ DOMAIN Get(run.result, colorDefs[i].key)
                          = {"name", "light", "dark", "lightContrast",
                             "darkContrast", "mode"}

\* A variant within the OKHSL solid
InGamut(v) ==
    /\ 0 <= v.h /\ v.h < 360
    /\ 0 <= v.s /\ v.s <= SOne
    /\ 0 <= v.l /\ v.l <= LOne

\* The variants a run holds in the Maps of its passes and in its result
VariantsOf(r) ==
    {r.lightMap[i].value : i \in 1..Len(r.lightMap)}
        \cup {r.lightHCMap[i].value : i \in 1..Len(r.lightHCMap)}
        \cup {r.darkMap[i].value : i \in 1..Len(r.darkMap)}
        \cup {r.darkHCMap[i].value : i \in 1..Len(r.darkHCMap)}
        \cup UNION {{r.result[i].value.light, r.result[i].value.dark,
                     r.result[i].value.lightContrast,
                     r.result[i].value.darkContrast} : i \in 1..Len(r.result)}

\* A declaration out of range: a lightness outside 0..100, a saturation
\* factor outside 0..1, or a relative delta that leaves 0..100
OutOfRange(def) ==
    \/ \E k \in 1..Len(def.lightness) :
          \/ def.lightness[k].t = "num"
                /\ (def.lightness[k].v < 0 \/ def.lightness[k].v > 100)
          \/ def.lightness[k].t = "rel" /\ def.lightness[k].mag >= 48
    \/ Len(def.saturation) > 0 /\ (def.saturation[1] < 0 \/ def.saturation[1] > 100)

\* C9: every variant resolve produces has lightness in [0, 1], saturation in
\* [0, 1] and, the seed hue being in [0, 360), hue in [0, 360), also when
\* declared values or the seed saturation are out of range; no error is
\* raised for an out-of-range value: a map without an invalid declaration
\* and without a cycle of base references fails only on a base not yet
\* resolved.
C9_VariantsInGamut ==
    /\ \A v \in VariantsOf(run) : InGamut(v)
    /\ (run.pc = "threw" /\ ~SomeInvalid(colorDefs) /\ ~Cyclic(colorDefs))
           => run.error = "not-yet-resolved"

\* resolve returned for a seed saturation above 100 and a definition whose
\* lightness and saturation factor are out of range
C9_Witness ==
    /\ run.pc = "done"
    /\ saturation > 100
    /\ \E i \in 1..Len(colorDefs) :
          /\ OutOfRange(colorDefs[i].value)
          /\ Len(colorDefs[i].value.saturation) > 0
          /\ Len(colorDefs[i].value.lightness) > 0

\* C10: when the contrast of the preferred lightness against the base meets
\* the target, findLightnessForContrast returns exactly preferredLightness
\* with met = true and branch = 'preferred' and searches no branch, and the
\* resolved variant has that lightness (clamped to [0, 1]).
C10_PreferredKept ==
    \A k \in 1..Len(run.calls) :
        CrGE(CandidateCr(run.calls[k].options, run.calls[k].options.preferredLightness),
             resolveMinContrast(run.calls[k].options.contrast)) =>
            /\ run.calls[k].result.lightness = run.calls[k].options.preferredLightness
            /\ run.calls[k].result.met
            /\ run.calls[k].result.branch = "preferred"
            /\ run.calls[k].result.searched = {}
            /\ run.calls[k].result.mids = 0 /\ run.calls[k].result.scans = 0
            /\ VariantOf(Get(run.resolved, run.calls[k].name),
                         run.calls[k].isDark, run.calls[k].isHighContrast).l
                  = clamp(run.calls[k].options.preferredLightness, 0, LOne)
            /\ run.pc = "done" =>
                  VariantOf(Get(run.result, run.calls[k].name),
                            run.calls[k].isDark, run.calls[k].isHighContrast).l
                      = clamp(run.calls[k].options.preferredLightness, 0, LOne)

\* resolve returned after a solver call whose preferred lightness already
\* met a floor above 1, next to a call that had to search
C10_Witness ==
    /\ run.pc = "done"
    /\ \E k, m \in 1..Len(run.calls) :
          /\ run.calls[k].result.branch = "preferred"
          /\ run.calls[k].result.met
          /\ CrGT(resolveMinContrast(run.calls[k].options.contrast), <<1, 1>>)
          /\ run.calls[m].result.branch # "preferred"

\* The entries that declare a base and no lightness
Inheriting(defs) ==
    {i \in 1..Len(defs) : Len(defs[i].value.base) = 1 /\ Len(defs[i].value.lightness) = 0}

\* The lightness of a colour's variant in the result of a run
ResultL(r, name, isDark, isHighContrast) ==
    VariantOf(Get(r.result, name), isDark, isHighContrast).l

\* C11: a colour that declares a base and no lightness has, in each of the
\* four variants, exactly the lightness of its base in that same variant.
C11_InheritsBaseLightness ==
    run.pc = "done" =>
        \A i \in Inheriting(colorDefs), isDark \in BOOLEAN, isHighContrast \in BOOLEAN :
            ResultL(run, colorDefs[i].key, isDark, isHighContrast)
                = ResultL(run, colorDefs[i].value.base[1], isDark, isHighContrast)

\* C11, as the program keeps it: the colour inherits its base's lightness
\* in each variant when it declares no contrast floor; with a floor the
\* solver is called with the base's lightness as its preferred lightness.
C11_InheritsWithoutContrast ==
    run.pc = "done" =>
        \A i \in Inheriting(colorDefs), isDark \in BOOLEAN, isHighContrast \in BOOLEAN :
            IF Len(colorDefs[i].value.contrast) = 0
            THEN ResultL(run, colorDefs[i].key, isDark, isHighContrast)
                    = ResultL(run, colorDefs[i].value.base[1], isDark, isHighContrast)
            ELSE \A k \in CallsOf(run.calls, colorDefs[i].key, isDark, isHighContrast) :
                    run.calls[k].options.preferredLightness
                        = ResultL(run, colorDefs[i].value.base[1], isDark, isHighContrast)

\* resolve returned for a colour without lightness and without contrast
\* whose base has four different lightnesses
C11_Witness ==
    /\ run.pc = "done"
    /\ \E i \in Inheriting(colorDefs) :
          /\ Len(colorDefs[i].value.contrast) = 0
          /\ Cardinality({ResultL(run, colorDefs[i].value.base[1], d, c) :
                             d \in BOOLEAN, c \in BOOLEAN}) = 4

\* The lightness a definition declares for a variant: the normal or the
\* high-contrast pick of its pair
PickedLightness(def, isHighContrast) ==
    IF isHighContrast /\ Len(def.lightness) = 2 THEN def.lightness[2] ELSE def.lightness[1]

\* The entries with a base and a lightness, and no contrast floor
PositionedOnBase(defs) ==
    {i \in 1..Len(defs) :
        /\ Len(defs[i].value.base) = 1
        /\ Len(defs[i].value.lightness) > 0
        /\ Len(defs[i].value.contrast) = 0}

\* The signed delta D of a relative lightness, in percent
SignedDelta(value) == IF value.sign = "-" THEN 0 - value.mag ELSE value.mag

\* The delta applied in a variant: -D in the dark variants of an 'auto'
\* colour, D otherwise
AppliedDelta(def, isDark, value) ==
    IF isDark /\ (Len(def.mode) = 0 \/ def.mode = <<"auto">>)
    THEN 0 - SignedDelta(value)
    ELSE SignedDelta(value)

Roots(defs) ==
    {i \in 1..Len(defs) :
        /\ Len(defs[i].value.base) = 0
        /\ Len(defs[i].value.lightness) > 0
        /\ \A k \in 1..Len(defs[i].value.lightness) : defs[i].value.lightness[k].t = "num"}

\* clamp(n, 0, 100) / 100 for a declared lightness n
DeclaredL(value) == clamp(value.v * LPct, 0, LOne)

\* clamp(F, 0, 1) * seedSaturation / 100 for the declared factor F (1 when
\* none is declared), on the 0..1 scale
DeclaredS(def, seedSaturation) ==
    clamp(IF Len(def.saturation) = 0 THEN 100 ELSE def.saturation[1], 0, 100)
        * seedSaturation * (SOne \div 10000)

\* C13: a root colour with the lightness pair (n, hc), n = hc for a single
\* value, and the saturation factor F has light.l = clamp(n, 0, 100) / 100,
\* lightContrast.l = clamp(hc, 0, 100) / 100 and
\* light.s = lightContrast.s = clamp(F, 0, 1) * seedSaturation / 100.
C13_RootLight ==
    run.pc = "done" =>
        \A i \in Roots(colorDefs) :
            /\ Get(run.result, colorDefs[i].key).light.l
                  = DeclaredL(PickedLightness(colorDefs[i].value, FALSE))
            /\ Get(run.result, colorDefs[i].key).lightContrast.l
                  = DeclaredL(PickedLightness(colorDefs[i].value, TRUE))
            /\ Get(run.result, colorDefs[i].key).light.s
                  = DeclaredS(colorDefs[i].value, saturation)
            /\ Get(run.result, colorDefs[i].key).lightContrast.s
                  = DeclaredS(colorDefs[i].value, saturation)

\* C13, as the program keeps it: the lightnesses are as stated, and the
\* saturation of both light variants is clamp(F, 0, 1) * seedSaturation / 100
\* clamped to [0, 1].
C13_RootLightClamped ==
    run.pc = "done" =>
        \A i \in Roots(colorDefs) :
            /\ Get(run.result, colorDefs[i].key).light.l
                  = DeclaredL(PickedLightness(colorDefs[i].value, FALSE))
            /\ Get(run.result, colorDefs[i].key).lightContrast.l
                  = DeclaredL(PickedLightness(colorDefs[i].value, TRUE))
            /\ Get(run.result, colorDefs[i].key).light.s
                  = clamp(DeclaredS(colorDefs[i].value, saturation), 0, SOne)
            /\ Get(run.result, colorDefs[i].key).lightContrast.s
                  = clamp(DeclaredS(colorDefs[i].value, saturation), 0, SOne)

\* resolve returned, under a seed saturation above 100, for a root colour
\* with a pair of different lightnesses
C13_Witness ==
    /\ run.pc = "done"
    /\ saturation > 100
    /\ \E i \in Roots(colorDefs) :
          /\ Len(colorDefs[i].value.lightness) = 2
          /\ Get(run.result, colorDefs[i].key).light.l
                # Get(run.result, colorDefs[i].key).lightContrast.l
          /\ Get(run.result, colorDefs[i].key).light.s = SOne

\* def.mode, 'auto' when none is declared
DeclaredMode(def) == IF Len(def.mode) = 0 THEN "auto" ELSE def.mode[1]

\* dark-map of a lightness l on the 0..100 scale for the window [lo, hi]:
\* l for 'static', l (hi - lo) / 100 + lo for 'fixed',
\* (100 - l) (hi - lo) / 100 + lo for 'auto'
DarkMap(window, l, mode) ==
    CASE mode = "static" -> l
      [] mode = "fixed" -> (l \div 100) * (window[2] - window[1]) + window[1] * LPct
      [] mode = "auto" ->
            ((100 * LPct - l) \div 100) * (window[2] - window[1]) + window[1] * LPct

\* dark-desaturate of a saturation s: s for 'static', s (1 - factor) otherwise
DarkDesaturate(factor, s, mode) ==
    IF mode = "static" THEN s ELSE (s * (100 - factor)) \div 100

\* C14: each dark variant of a root colour has the lightness
\* dark-map(clamp(L, 0, 100), mode) / 100, L being the pick of the variant,
\* and the saturation dark-desaturate(F * seedSaturation / 100, mode).
C14_RootDark ==
    run.pc = "done" =>
        \A i \in Roots(colorDefs), isHighContrast \in BOOLEAN :
            /\ ResultL(run, colorDefs[i].key, TRUE, isHighContrast)
                  = DarkMap(globalConfig.darkLightness,
                            DeclaredL(PickedLightness(colorDefs[i].value, isHighContrast)),
                            DeclaredMode(colorDefs[i].value))
            /\ VariantOf(Get(run.result, colorDefs[i].key), TRUE, isHighContrast).s
                  = DarkDesaturate(globalConfig.darkDesaturation,
                                   DeclaredS(colorDefs[i].value, saturation),
                                   DeclaredMode(colorDefs[i].value))

\* C14, as the program keeps it: the mapped lightness and the desaturated
\* saturation are clamped to [0, 1].
C14_RootDarkClamped ==
    run.pc = "done" =>
        \A i \in Roots(colorDefs), isHighContrast \in BOOLEAN :
            /\ ResultL(run, colorDefs[i].key, TRUE, isHighContrast)
                  = clamp(DarkMap(globalConfig.darkLightness,
                                  DeclaredL(PickedLightness(colorDefs[i].value, isHighContrast)),
                                  DeclaredMode(colorDefs[i].value)),
                          0, LOne)
            /\ VariantOf(Get(run.result, colorDefs[i].key), TRUE, isHighContrast).s
                  = clamp(DarkDesaturate(globalConfig.darkDesaturation,
                                         DeclaredS(colorDefs[i].value, saturation),
                                         DeclaredMode(colorDefs[i].value)),
                          0, SOne)

\* resolve returned, under a configured window and desaturation, for an
\* 'auto' root colour and a 'fixed' or 'static' one, the dark lightness of
\* the 'auto' colour being the inversion of its light lightness
C14_Witness ==
    /\ run.pc = "done"
    /\ globalConfig # DefaultConfig
    /\ \E i, j \in Roots(colorDefs) :
          /\ Len(colorDefs[i].value.mode) = 0
          /\ Len(colorDefs[j].value.mode) = 1
          /\ Get(run.result, colorDefs[i].key).light.l < 50 * LPct
          /\ Get(run.result, colorDefs[i].key).dark.l > 50 * LPct
          /\ Get(run.result, colorDefs[i].key).dark.s
                < Get(run.result, colorDefs[i].key).light.s

\* The entries whose mode is 'static'
Statics(defs) == {i \in 1..Len(defs) : defs[i].value.mode = <<"static">>}

\* C15: a colour whose mode is 'static', root or dependent, does not adapt
\* between schemes: its dark variant has the lightness and the saturation of
\* its light variant, and its darkContrast variant those of its
\* lightContrast variant.
C15_StaticUnchanged ==
    run.pc = "done" =>
        \A i \in Statics(colorDefs) :
            /\ Get(run.result, colorDefs[i].key).dark.l
                  = Get(run.result, colorDefs[i].key).light.l
            /\ Get(run.result, colorDefs[i].key).dark.s
                  = Get(run.result, colorDefs[i].key).light.s
            /\ Get(run.result, colorDefs[i].key).darkContrast.l
                  = Get(run.result, colorDefs[i].key).lightContrast.l
            /\ Get(run.result, colorDefs[i].key).darkContrast.s
                  = Get(run.result, colorDefs[i].key).lightContrast.s

\* The hue a definition declares for a theme of seed hue seedHue: an
\* absolute override and the seed hue plus a relative one are taken modulo
\* 360 into [0, 360); without an override it is the seed hue
DeclaredHue(seedHue, def) ==
    IF Len(def.hue) = 0 THEN seedHue
    ELSE IF def.hue[1].t = "num" THEN def.hue[1].v % 360
    ELSE (seedHue + SignedDelta(def.hue[1])) % 360

\* C16: the hue of a colour is the same in its four variants and is the
\* hue it declares, a relative hue being counted from the theme's seed hue
\* and never from the hue of the base.
C16_EffectiveHue ==
    run.pc = "done" =>
        \A i \in 1..Len(colorDefs), isDark \in BOOLEAN, isHighContrast \in BOOLEAN :
            VariantOf(Get(run.result, colorDefs[i].key), isDark, isHighContrast).h
                = DeclaredHue(hue, colorDefs[i].value)

\* resolve returned for a colour with a relative hue that wraps below 0,
\* on a base whose hue is not the seed hue, next to a colour with an absolute
\* hue outside [0, 360)
C16_Witness ==
    /\ run.pc = "done"
    /\ \E i \in 1..Len(colorDefs) :
          /\ Len(colorDefs[i].value.hue) = 1
          /\ colorDefs[i].value.hue[1].t = "rel"
          /\ hue + SignedDelta(colorDefs[i].value.hue[1]) < 0
          /\ Len(colorDefs[i].value.base) = 1
          /\ Get(run.result, colorDefs[i].value.base[1]).light.h # hue
    /\ \E j \in 1..Len(colorDefs) :
          /\ Len(colorDefs[j].value.hue) = 1
          /\ colorDefs[j].value.hue[1].t = "num"
          /\ colorDefs[j].value.hue[1].v \notin 0..359

\* The run of resolve() on the theme when no call was made before it
FreshRun == resolveAllColors(EmptyCache, globalConfig, hue, saturation, colorDefs).run

\* C17: the table of cachedLuminance never changes an output: after any
\* sequence of calls of resolve() and of the solver, each call has returned
\* what it returns when the table is empty at its start, the table being
\* filled and entries evicted in between.
C17_CacheTransparent ==
    /\ run.pc \in {"done", "threw"} => run = FreshRun
    /\ call.pc = "returned" =>
           call.result = findLightnessForContrast(EmptyCache, call.options).result

\* The keys a resolve() of the first theme stores
FirstKeys ==
    resolveAllColors(EmptyCache, globalConfig, CacheSeeds[1], saturation,
                     colorDefs).cache.cacheOrder

\* The table is full and its newest key is the last of keys
Restored(keys) ==
    /\ Len(cacheOrder) = CACHE_SIZE
    /\ Len(keys) > 0
    /\ cacheOrder[CACHE_SIZE] = keys[Len(keys)]

\* The key under which the solver looked up the preferred lightness of o
PreferredKey(o) == CacheKey(o.hue, o.saturation, LRounded(o.preferredLightness))

\* C17 witness: the direct call made next to the second theme has returned
\* and the entry of its first lookup was evicted since; the table is full,
\* and the resolve() of the last theme, which looks up the keys of the first
\* theme again, has returned, its keys being the newest of the table
C17_Witness ==
    /\ hue = CacheSeeds[Len(CacheSeeds)]
    /\ run.pc = "done"
    /\ Len(run.calls) > 0
    /\ call.pc = "returned"
    /\ call.options.hue = CacheSeeds[2]
    /\ ~Has(luminanceCache, PreferredKey(call.options))
    /\ Restored(FirstKeys)

\* A resolved colour without its dark and darkContrast variants
LightPart(c) == [name |-> c.name, mode |-> c.mode, light |-> c.light,
                 lightContrast |-> c.lightContrast]

\* Two runs of resolve() end alike, and return the same colours up to the
\* dark and darkContrast variants
SameLight(r, other) ==
    /\ other.pc = r.pc
    /\ other.error = r.error
    /\ Keys(other.result) = Keys(r.result)
    /\ \A i \in 1..Len(r.result) :
          LightPart(other.result[i].value) = LightPart(r.result[i].value)

\* The run of resolve() on the theme after glaze.configure(config)
ConfiguredRun(config) ==
    resolveAllColors(EmptyCache, configure(globalConfig, config), hue, saturation,
                     colorDefs).run

\* C18: the dark lightness window and the dark desaturation of the global
\* configuration affect only the dark mapping: whatever glaze.configure sets
\* them to, resolve() ends the same way and the light and lightContrast
\* variants of every colour are the same; only dark and darkContrast differ.
C18_ConfigOnlyDark ==
    run.pc \in {"done", "threw"} =>
        \A config \in Configurations : SameLight(run, ConfiguredRun(config))

\* The dark and the darkContrast variant of a colour both differ in r and other
DarkDiffers(r, other, name) ==
    /\ Get(r.result, name).dark # Get(other.result, name).dark
    /\ Get(r.result, name).darkContrast # Get(other.result, name).darkContrast

\* C18 witness: resolve() has returned a root and a colour solved against a
\* base, and under another configuration the dark variants of both differ
C18_Witness ==
    /\ run.pc = "done"
    /\ \E i \in Roots(colorDefs), j \in Contrasting(colorDefs) :
          \E config \in Configurations :
             /\ DarkDiffers(run, ConfiguredRun(config), colorDefs[i].key)
             /\ DarkDiffers(run, ConfiguredRun(config), colorDefs[j].key)

\* The theme created by glaze(hue, saturation) and given the definitions of
\* this theme by colors()
FreshDefs == colors(<<>>, colorDefs)

\* C19: resolve() is read-only and uncached: whether it returns or throws,
\* it leaves the definitions and the global configuration unchanged, and
\* after any sequence of colors, color, remove, reset and configure it
\* returns what a fresh theme of the same seed and the same definitions
\* returns in a process that has resolved nothing before.
C19_ResolveReadOnly ==
    [][last'.op = "resolve" =>
          /\ colorDefs' = colorDefs
          /\ globalConfig' = globalConfig
          /\ last'.returned =
                <<resolveAllColors(EmptyCache, globalConfig, hue, saturation,
                                   FreshDefs).run>>]_vars

\* C19 witness: after several operations and a glaze.configure, resolve()
\* has returned three colours, one of them solved against its base
C19_Witness ==
    /\ last.op = "resolve"
    /\ last.returned[1].pc = "done"
    /\ Len(last.returned[1].result) = 3
    /\ Len(last.returned[1].calls) > 0
    /\ hue = 280
    /\ globalConfig.darkLightness = <<20, 80>>

\* The definitions of a ColorMap as a set of pairs <<name, definition>>
Pairs(defs) == {<<defs[i].key, defs[i].value>> : i \in 1..Len(defs)}

\* The elements of a sequence
Elements(seq) == {seq[i] : i \in 1..Len(seq)}

\* What an operation op does to a reference map, before and after being two
\* ColorMaps
ReferenceStep(op, before, after) ==
    IF op.op = "colors"
    THEN Pairs(after) = {p \in Pairs(before) : p[1] \notin Elements(Keys(op.defs))}
                           \cup Pairs(op.defs)
    ELSE IF op.op = "color" /\ Len(op.defs) > 0
    THEN Pairs(after) = {p \in Pairs(before) : p[1] # op.defs[1].key}
                           \cup Pairs(op.defs)
    ELSE IF op.op = "remove"
    THEN Pairs(after) = {p \in Pairs(before) : p[1] \notin Elements(op.names)}
    ELSE IF op.op = "reset"
    THEN Pairs(after) = {}
    ELSE after = before

\* The names has() is asked about
ProbedNames == ThemeNames \cup {"d", "constructor"}

\* C20: after any sequence of colors, color, remove and reset, list() and
\* has() reflect exactly a reference map: has(name) is true exactly for the
\* names list() returns, no name is listed twice, and every operation does
\* to the definitions what it does to the reference map.
C20_ReferenceMap ==
    /\ [](/\ \A n \in ProbedNames :
                has(colorDefs, n) <=> n \in Elements(list(colorDefs))
          /\ Cardinality(Elements(list(colorDefs))) = Len(list(colorDefs)))
    /\ [][ReferenceStep(last', colorDefs, colorDefs')]_vars

\* The preferred lightness of a solver call fails its target
PreferredFails(o) ==
    ~CrGE(CandidateCr(o, o.preferredLightness), resolveMinContrast(o.contrast))

\* The searches of the two branches of a solver call, each on its own
DarkerSearch(o) ==
    searchBranch(EmptyCache, o.hue, o.saturation, o.lightnessRange[1],
                 o.preferredLightness, relativeLuminanceFromLinearRgb(o.baseLinearRgb),
                 resolveMinContrast(o.contrast), o.epsilon, o.maxIterations,
                 o.preferredLightness)

LighterSearch(o) ==
    searchBranch(EmptyCache, o.hue, o.saturation, o.preferredLightness,
                 o.lightnessRange[2], relativeLuminanceFromLinearRgb(o.baseLinearRgb),
                 resolveMinContrast(o.contrast), o.epsilon, o.maxIterations,
                 o.preferredLightness)

\* The result r is the branch result b, named branch
IsBranch(r, b, branch) ==
    /\ r.branch = branch
    /\ r.lightness = b.lightness
    /\ r.contrast = b.contrast
    /\ r.met = b.met

\* The result r combines the results d and l of the darker and the lighter
\* branch, searched when hasDarker and hasLighter
Combined(pref, r, hasDarker, hasLighter, d, l) ==
    IF (hasDarker /\ d.met) /\ (hasLighter /\ l.met)
    THEN /\ r.met
         /\ Abs(d.lightness - pref) <= Abs(l.lightness - pref) => IsBranch(r, d, "darker")
         /\ Abs(d.lightness - pref) > Abs(l.lightness - pref) => IsBranch(r, l, "lighter")
    ELSE IF hasDarker /\ d.met THEN IsBranch(r, d, "darker")
    ELSE IF hasLighter /\ l.met THEN IsBranch(r, l, "lighter")
    ELSE /\ ~r.met
         /\ hasDarker /\ ~hasLighter => IsBranch(r, d, "darker")
         /\ hasLighter /\ ~hasDarker => IsBranch(r, l, "lighter")
         /\ hasDarker /\ hasLighter =>
               \/ IsBranch(r, d, "darker") /\ CrGE(d.contrast, l.contrast)
               \/ IsBranch(r, l, "lighter") /\ CrGE(l.contrast, d.contrast)

\* C25: when the preferred lightness fails the target, the result is the
\* branch result nearer to preferredLightness if both branches met the
\* target, a tie going to the darker one; the one that met it if only one
\* did; and, with met = false, the one of the higher contrast if none did.
C25_CombinesBranches ==
    call.pc = "returned" /\ PreferredFails(call.options) =>
        Combined(call.options.preferredLightness, call.result,
                 call.options.preferredLightness > call.options.lightnessRange[1],
                 call.options.preferredLightness < call.options.lightnessRange[2],
                 DarkerSearch(call.options), LighterSearch(call.options))

\* A call returned the lighter of two branch results that both met the
\* target, the lighter one being the nearer to preferredLightness
C25_Witness ==
    /\ call.pc = "returned"
    /\ PreferredFails(call.options)
    /\ call.result.searched = {"darker", "lighter"}
    /\ DarkerSearch(call.options).met /\ LighterSearch(call.options).met
    /\ call.result.branch = "lighter"

\* C27 as amended: a call evaluates at most maxIterations bisection midpoints
\* for each branch it searches, twice maxIterations when it searches both,
\* and performs at most one coarse scan.
C27_BoundedWork ==
    call.pc = "returned" =>
        /\ call.result.mids
              <= call.options.maxIterations * Cardinality(call.result.searched)
        /\ call.result.scans <= 1

\* A call searched both branches and evaluated maxIterations midpoints in
\* each
C27_Witness ==
    /\ call.pc = "returned"
    /\ call.result.searched = {"darker", "lighter"}
    /\ call.result.mids = 2 * call.options.maxIterations

\* C27 as stated: a call evaluates at most maxIterations bisection midpoints
\* in total and performs at most one coarse scan.
C27_MidpointsInTotal ==
    call.pc = "returned" =>
        /\ call.result.mids <= call.options.maxIterations
        /\ call.result.scans <= 1

\* The lightness l meets the target of a solver call, as the solver measures
Passes(o, l) == CrGE(CandidateCr(o, l), resolveMinContrast(o.contrast))

\* The bounds of the loop of searchBranch on [lo, hi] after k iterations
BoundsAfter(o, lo, hi, k) ==
    Bisect(EmptyCache, o.hue, o.saturation, lo, hi,
           relativeLuminanceFromLinearRgb(o.baseLinearRgb),
           resolveMinContrast(o.contrast), o.epsilon, k, o.preferredLightness, 0)

\* The branches findLightnessForContrast searches when the preferred
\* lightness fails: <<lo, hi, outer side>>
BranchesOf(o) ==
    (IF o.preferredLightness > o.lightnessRange[1]
     THEN {<<o.lightnessRange[1], o.preferredLightness, "low">>} ELSE {})
    \cup (IF o.preferredLightness < o.lightnessRange[2]
          THEN {<<o.preferredLightness, o.lightnessRange[2], "high">>} ELSE {})

\* b being the bounds of a branch whose outer side is outer: the bound on
\* the outer side passes and the bound on the preferred side fails
OuterPasses(o, b, outer) ==
    IF outer = "low"
    THEN Passes(o, b.low) /\ ~Passes(o, b.high)
    ELSE Passes(o, b.high) /\ ~Passes(o, b.low)

\* C28: no call reaches the coarse scan: a branch is searched only when the
\* preferred lightness fails, its loop begins only when the outer endpoint
\* passes, and after every iteration the bound on the outer side passes and
\* the bound on the preferred side fails, so that a final bound passes.
C28_NoCoarseScan ==
    call.pc = "returned" =>
        /\ call.result.scans = 0
        /\ call.result.searched # {} =>
              /\ PreferredFails(call.options)
              /\ \A br \in BranchesOf(call.options) :
                    Passes(call.options, IF br[3] = "low" THEN br[1] ELSE br[2]) =>
                        \A k \in 0..call.options.maxIterations :
                            OuterPasses(call.options,
                                        BoundsAfter(call.options, br[1], br[2], k), br[3])

\* A call bisected both of its branches and returned a lightness that meets
\* the target
C28_Witness ==
    /\ call.pc = "returned"
    /\ call.result.searched = {"darker", "lighter"}
    /\ \A br \in BranchesOf(call.options) :
          Passes(call.options, IF br[3] = "low" THEN br[1] ELSE br[2])
    /\ call.result.mids > call.options.maxIterations
    /\ call.result.met
    /\ call.result.scans = 0

\* C29: the result of a call has met = true exactly when its contrast is at
\* least the resolved target, the lightness preferredLightness when its
\* branch is 'preferred', a lightness at most preferredLightness when it is
\* 'darker' and at least preferredLightness when it is 'lighter'.
C29_SelfConsistent ==
    call.pc = "returned" =>
        /\ call.result.met
              <=> CrGE(call.result.contrast, resolveMinContrast(call.options.contrast))
        /\ call.result.branch \in {"preferred", "darker", "lighter"}
        /\ call.result.branch = "preferred" =>
              call.result.lightness = call.options.preferredLightness
        /\ call.result.branch = "darker" =>
              call.result.lightness <= call.options.preferredLightness
        /\ call.result.branch = "lighter" =>
              call.result.lightness >= call.options.preferredLightness

\* A call whose preferred lightness lies above the range returned a darker
\* lightness that meets the target after bisecting
C29_Witness ==
    /\ call.pc = "returned"
    /\ call.options.preferredLightness > call.options.lightnessRange[2]
    /\ call.result.branch = "darker"
    /\ call.result.met
    /\ call.result.mids > 0
    /\ call.result.lightness < call.options.preferredLightness

\* (hue, saturation, lightness rounded to 4 decimals) of a colour looked up
Rounded(p) == <<p.h, p.s, LRounded(p.l)>>

\* n colours being looked up so far and the table holding size of them: the
\* colour p is one of the size colours looked up last
Stored(p, n, size) == \E i \in (n - size)..(n - 1) : Rounded(Probe(i)) = Rounded(p)

\* The lookup that was just made left the table as a FIFO table does:
\* table and order are those before it, after it
FifoStep(p, n, table, order, tableAfter, orderAfter) ==
    IF Stored(p, n, Len(order))
    THEN tableAfter = table /\ orderAfter = order
    ELSE /\ Len(orderAfter) > 0
         /\ orderAfter[Len(orderAfter)] \notin Elements(order)
         /\ orderAfter
               = Append(IF Len(table) >= CACHE_SIZE THEN Tail(order) ELSE order,
                        orderAfter[Len(orderAfter)])
         /\ Elements(Keys(tableAfter)) = Elements(orderAfter)
         /\ Elements(table) \ Elements(tableAfter)
               = IF Len(table) >= CACHE_SIZE
                 THEN {e \in Elements(table) : e.key = order[1]}
                 ELSE {}
         /\ Cardinality(Elements(tableAfter) \ Elements(table)) = 1

Progress(r, n) ==
    CASE r.pc = "pass1" -> r.i - 1
      [] r.pc = "seed2" -> n
      [] r.pc = "pass2" -> n + r.i - 1
      [] r.pc = "seed3" -> 2 * n
      [] r.pc = "pass3" -> 2 * n + r.i - 1
      [] r.pc = "seed4" -> 3 * n
      [] r.pc = "pass4" -> 3 * n + r.i - 1
      [] r.pc \in {"build", "done"} -> 4 * n
      [] OTHER -> 0

\* The Map of the pass of a variant: light, lightContrast, dark,
\* darkContrast are passes 1, 2, 3, 4
PassMap(r, pass) ==
    CASE pass = 1 -> r.lightMap
      [] pass = 2 -> r.lightHCMap
      [] pass = 3 -> r.darkMap
      [] pass = 4 -> r.darkHCMap

PassOf(isDark, isHighContrast) ==
    (IF isDark THEN 3 ELSE 1) + (IF isHighContrast THEN 1 ELSE 0)

\* The pass of a pc of PassPcs
PassAt(pc) == PassOf(IsDarkPass(pc), IsHighContrastPass(pc))

\* The definition is evaluated by resolveDependentColor, which reads a base
ReadsBase(def) ==
    BaseDefined(def) /\ ~(isAbsoluteLightness(def.lightness) /\ ~HasBase(def))

\* The Maps of the variants are filled pass after pass, light first, then
\* lightContrast, dark and darkContrast, each in the evaluation order
PassesInOrder(r) ==
    r.pc \notin {"validate", "sort", "threw"} =>
        \A pass \in 1..4 :
            /\ Len(PassMap(r, pass))
                  = Max2(0, Min2(Len(r.order),
                                 Progress(r, Len(r.order)) - (pass - 1) * Len(r.order)))
            /\ Keys(PassMap(r, pass)) = SubSeq(r.order, 1, Len(PassMap(r, pass)))

\* The base the colour evaluated next reads from ctx.resolved has, for the
\* variant of the pass, the value its own evaluation in this pass stored
ReadsEvaluatedBase(defs, r) ==
    r.pc \in PassPcs /\ ReadsBase(Get(defs, r.order[r.i]))
                     /\ Has(r.resolved, Get(defs, r.order[r.i]).base[1]) =>
        /\ Has(PassMap(r, PassAt(r.pc)), Get(defs, r.order[r.i]).base[1])
        /\ BaseVariant([resolved |-> r.resolved], Get(defs, r.order[r.i]).base[1],
                       IsDarkPass(r.pc), IsHighContrastPass(r.pc))
              = Get(PassMap(r, PassAt(r.pc)), Get(defs, r.order[r.i]).base[1])

\* The linear sRGB colour of a resolved variant
LinearRgb(v) == okhslToLinearSrgb(v.h, v.s, v.l)

\* The result returned holds, for every colour and variant, the value the
\* pass of that variant stored, and every call of the solver was handed the
\* colour of the base's variant in the result
ReturnsEvaluated(defs, r) ==
    r.pc = "done" =>
        /\ \A k \in 1..Len(r.order), isDark \in BOOLEAN, isHighContrast \in BOOLEAN :
              VariantOf(Get(r.result, r.order[k]), isDark, isHighContrast)
                  = Get(PassMap(r, PassOf(isDark, isHighContrast)), r.order[k])
        /\ \A k \in 1..Len(r.calls) :
              r.calls[k].options.baseLinearRgb
                  = LinearRgb(VariantOf(Get(r.result, Get(defs, r.calls[k].name).base[1]),
                                        r.calls[k].isDark, r.calls[k].isHighContrast))

\* C24: the variants are evaluated in the order light, lightContrast, dark,
\* darkContrast, and a dependent colour evaluated for a variant reads, as
\* lightness and as the h, s, l handed to the solver, the value of its base
\* for that variant that the result returns, never a seeded placeholder.
C24_PassesReadFinalBase ==
    /\ PassesInOrder(run)
    /\ ReadsEvaluatedBase(colorDefs, run)
    /\ ReturnsEvaluated(colorDefs, run)

\* resolve returned after a dark high-contrast solver call against a base
\* whose four variants differ in lightness
C24_Witness ==
    /\ run.pc = "done"
    /\ \E k \in 1..Len(run.calls) :
          /\ run.calls[k].isDark /\ run.calls[k].isHighContrast
          /\ Cardinality({VariantOf(Get(run.result,
                                        Get(colorDefs, run.calls[k].name).base[1]),
                                    d, hc).l : d \in BOOLEAN, hc \in BOOLEAN}) = 4

\* The names of the exports that take modes
ModalExports == {"tokens", "tasty", "json"}

\* The flag in effect: the value given to the call, else the configured one
FlagInEffect(given, configured) == IF Len(given) = 1 THEN given[1] ELSE configured

\* The modes in effect for an export called with options under config
ModesInEffect(config, options) ==
    [dark |-> FlagInEffect(IF Len(options.modes) = 0 THEN <<>> ELSE options.modes[1].dark,
                           config.modes.dark),
     highContrast |->
         FlagInEffect(IF Len(options.modes) = 0 THEN <<>>
                      ELSE options.modes[1].highContrast,
                      config.modes.highContrast)]

\* The variants an export holds under the modes e
VariantsEnabled(e) ==
    {"light"} \cup (IF e.dark THEN {"dark"} ELSE {})
              \cup (IF e.highContrast THEN {"lightContrast"} ELSE {})
              \cup (IF e.dark /\ e.highContrast THEN {"darkContrast"} ELSE {})

\* The variant of a resolved colour by its name
VariantNamed(resolvedColor, v) ==
    CASE v = "light" -> resolvedColor.light
      [] v = "dark" -> resolvedColor.dark
      [] v = "lightContrast" -> resolvedColor.lightContrast
      [] v = "darkContrast" -> resolvedColor.darkContrast

\* The key of a variant in an entry of tasty()
StateKey(states, v) ==
    CASE v = "light" -> ""
      [] v = "dark" -> states.dark
      [] v = "lightContrast" -> states.highContrast
      [] v = "darkContrast" -> states.dark \o " & " \o states.highContrast

\* The export o of the Map resolved holds exactly the variants enabled
HoldsVariants(op, o, resolved, states, enabled) ==
    CASE op = "tokens" ->
            /\ Elements(Keys(o)) = enabled
            /\ \A v \in enabled :
                  /\ Elements(Keys(Get(o, v))) = Elements(Keys(resolved))
                  /\ \A k \in 1..Len(resolved) :
                        Get(Get(o, v), resolved[k].key)
                            = formatVariant(VariantNamed(resolved[k].value, v), "okhsl")
      [] op = "tasty" ->
            /\ Len(o) = Len(resolved)
            /\ \A k \in 1..Len(resolved) :
                  /\ Elements(Keys(Get(o, "#" \o resolved[k].key)))
                        = {StateKey(states, v) : v \in enabled}
                  /\ \A v \in enabled :
                        Get(Get(o, "#" \o resolved[k].key), StateKey(states, v))
                            = formatVariant(VariantNamed(resolved[k].value, v), "okhsl")
      [] op = "json" ->
            /\ Elements(Keys(o)) = Elements(Keys(resolved))
            /\ \A k \in 1..Len(resolved) :
                  /\ Elements(Keys(Get(o, resolved[k].key))) = enabled
                  /\ \A v \in enabled :
                        Get(Get(o, resolved[k].key), v)
                            = formatVariant(VariantNamed(resolved[k].value, v), "okhsl")

\* What glaze.configure({ modes }) and glaze.resetConfig() do to the modes
\* configured, op being the call made and before, after the configurations
ConfiguresModes(op, before, after) ==
    /\ op.op = "configure" =>
          after.modes
              = ModesInEffect(before, [modes |-> op.modes])
    /\ op.op = "resetConfig" => after.modes = [dark |-> TRUE, highContrast |-> FALSE]
    /\ op.op \notin {"configure", "resetConfig"} => after.modes = before.modes

CssVariants == {"light", "dark", "lightContrast", "darkContrast"}

\* The declarations of the variant v in a css() result
Declarations(o, v) ==
    CASE v = "light" -> o.light
      [] v = "dark" -> o.dark
      [] v = "lightContrast" -> o.lightContrast
      [] v = "darkContrast" -> o.darkContrast

\* C23: what css() returns holds declarations only for the variants enabled
\* by the modes in effect (the value given to the call, else the configured
\* one, else the default), one declaration per colour for an enabled variant
\* and none for a disabled one, as tokens(), tasty() and json() do.
C23_CssHonoursModes ==
    last.op = "css" /\ Len(last.returned) = 1 =>
        \A v \in CssVariants :
            Len(Declarations(last.returned[1], v))
                = IF v \in VariantsEnabled(ModesInEffect(globalConfig, last.options))
                  THEN Len(last.run.result)
                  ELSE 0

\* The place of x in the sequence seq
Place(seq, x) == CHOOSE i \in 1..Len(seq) : seq[i] = x

\* The base edge of name is followed by topoSort
FollowsBase(defs, name) ==
    HasBase(Get(defs, name)) /\ ~isAbsoluteLightness(Get(defs, name).lightness)

\* The name reached from name over k followed base edges, if there is one
RECURSIVE FollowedAfter(_, _, _)
FollowedAfter(defs, name, k) ==
    IF k = 0 THEN <<name>>
    ELSE IF ~Has(defs, name) THEN <<>>
    ELSE IF ~FollowsBase(defs, name) THEN <<>>
    ELSE FollowedAfter(defs, Get(defs, name).base[1], k - 1)

\* n is reached from m over followed base edges
ReachedFrom(defs, m, n) == \E k \in 1..Len(defs) : FollowedAfter(defs, m, k) = <<n>>

\* The Map resolved iterates in the order of evaluation
IteratesAsEvaluated(r) == Keys(r.result) = r.order

\* A followed base stands before its dependent
BaseBeforeDependent(defs, names) ==
    \A i \in 1..Len(names) :
        FollowsBase(defs, names[i]) =>
            Place(names, Get(defs, names[i]).base[1]) < i

\* Colours that no followed edge constrains keep the order they were defined
\* in: defs holds the definitions in the order of insertion
KeepsInsertionOrder(defs, names) ==
    \A i, j \in 1..Len(defs) :
        (i < j /\ \A k \in 1..i : ~ReachedFrom(defs, defs[k].key, defs[j].key)) =>
            Place(names, defs[i].key) < Place(names, defs[j].key)

\* The names of the keys or lines of the export o of op, in their order
ExportedNames(op, o, suffix) ==
    CASE op = "tokens" -> Keys(OwnProperties(Get(o, "light")))
      [] op = "tasty" -> Keys(OwnProperties(o))
      [] op = "json" -> Keys(OwnProperties(o))
      [] op = "css" -> [k \in 1..Len(o.light) |-> o.light[k].prop]

\* The keys or lines an export has for the names, in their order
NamesExported(op, names, suffix) ==
    CASE op = "tokens" -> names
      [] op = "tasty" -> [k \in 1..Len(names) |-> "#" \o names[k]]
      [] op = "json" -> names
      [] op = "css" -> [k \in 1..Len(names) |-> "--" \o names[k] \o suffix]

\* C30: the Map of resolve iterates in the order of evaluation: a base reached
\* over a followed base edge stands before its dependent, colours that no
\* followed edge constrains keep the order of their insertion, and the lines
\* of css and the keys of the tokens come in the same order.
C30_EvaluationOrder ==
    last.op \in {"tokens", "tasty", "json", "css"} /\ Len(last.returned) = 1 =>
        /\ IteratesAsEvaluated(last.run)
        /\ BaseBeforeDependent(colorDefs, Keys(last.run.result))
        /\ KeepsInsertionOrder(colorDefs, Keys(last.run.result))
        /\ ExportedNames(last.op, last.returned[1], OrElse(last.options.suffix, "-color"))
              = NamesExported(last.op, Keys(last.run.result),
                              OrElse(last.options.suffix, "-color"))

\* The operations that change the definitions of a theme
Mutators == {"colors", "color", "remove", "reset"}

\* What was given away, as its holder sees it
GivenAway(d) == [kind |-> d.kind, hue |-> d.hue, saturation |-> d.saturation,
                 colors |-> d.colors]

\* C21: the object that export() returned and a theme made by extend() or
\* glaze.from() are isolated from the original theme: no colors(), color(name,
\* def), remove() or reset() of the original changes the exported colours or
\* the definitions of the derived theme, and no change of the derived theme
\* or of the export object changes the original.
C21_Isolated ==
    [][/\ last'.on = "original" /\ last'.op \in Mutators =>
              GivenAway(derived') = GivenAway(derived)
       /\ last'.on = "derived" =>
              /\ colorDefs' = colorDefs
              /\ hue' = hue
              /\ saturation' = saturation]_vars

\* The original theme defined a colour after export(), and the exported
\* colours are without it
C21_Witness ==
    /\ derived.kind = "export"
    /\ last = Acted("original", "color")
    /\ Has(colorDefs, "c")
    /\ Has(derived.colors, "a")
    /\ ~Has(derived.colors, "c")
====
